---- MODULE Spec2Model ----
(***************************************************************************)
(* A model of warc-gpt: the vector-storage backends (Chroma, Qdrant), the  *)
(* `ingest` command with its adaptive batching, the lazily initialised     *)
(* handles of the serving endpoints, the backend factory and the request   *)
(* handlers.                                                               *)
(*                                                                         *)
(* Six specifications share the variables; each leaves the variables of    *)
(* the other parts at their initial value:                                 *)
(*   Spec        the two storage backends driven side by side              *)
(*   SpecIngest  one run of the `ingest` command                           *)
(*   SpecServe   concurrent /api/search and /api/completion requests       *)
(*   SpecFactory calls of VectorStorage.make_storage                       *)
(*   SpecRequest one request through /api/search, /api/completion or       *)
(*               /api/complete                                             *)
(*   SpecScroll  one run of Qdrant._scroll_points over a stocked           *)
(*               collection, page by page                                  *)
(***************************************************************************)
EXTENDS Integers, Sequences, FiniteSets, TLC

VARIABLES
    \* ---- vector storage (utils/vector_storage) ----
    metric,          \* environ VECTOR_SEARCH_DISTANCE_FUNCTION
    chroma,          \* the Chroma collection: entries in insertion order
    qdrantExists,    \* whether the Qdrant collection exists on the server
    qdrantConfig,    \* the vectors_config the Qdrant collection was created with
    qdrantPoints,    \* the Qdrant collection: points in insertion order
    uuidCount,       \* number of uuid.uuid4() values drawn so far
    supplied,        \* every entry a caller has handed to add
    lastOp,          \* the last storage call and its arguments
    chromaOut,       \* what that call returned on the Chroma backend
    qdrantOut,       \* what that call returned on the Qdrant backend
    \* ---- ingest command (commands/ingest.py) ----
    ipc,             \* position of the ingest command
    batch_size,      \* --batch-size option
    multi_chunk_mode,
    encoding_timings,
    total_records,
    total_embeddings,
    nFiles,          \* len(warc_files)
    fileIdx,         \* index of the file being read (1-based)
    recIdx,          \* records read so far in the run
    dbFile,          \* chroma.sqlite3 exists under VECTOR_SEARCH_PATH
    modelLoaded,     \* SentenceTransformer constructed by ingest
    collection,      \* the collection ingest writes: created, entries
    output,          \* lines echoed by ingest
    exitCode,        \* -1 while running
    encodeLog,       \* the embedding calls of the last chunk_objects call
    lastEmbed,       \* arguments and outcome of the last chunk_objects call
    passedFilters,   \* ghost: records that passed every filter
    entriesAdded,    \* ghost: entries handed to chroma_collection.add
    lastIter,        \* ghost: where the last iteration of the record loop ended
    \* ---- serving (views/api.py, views/api/search.py) ----
    cache,           \* endpoint -> the module's vector_store_cache
    constructed,     \* handle kind -> number of constructions so far
    rpc,             \* request -> position in its handler
    rlocal,          \* request -> the handler's local handle variables
    rendpoint,       \* request -> endpoint it was sent to
    \* ---- the backend factory (utils/vector_storage/base.py) ----
    factoryLog,      \* the make_storage calls made and what each gave
    built,           \* the backend classes whose constructor has run, in order
    \* ---- one request through its handler (views/api.py, views/api/*.py) ----
    request,         \* the endpoint and the JSON body of the request
    collectionServed, \* the metadatas of the collection the handlers query
    hpc,             \* position in the handler
    locals,          \* the handler's local variables
    calls,           \* the calls the handler has made to model, store and provider
    returned,        \* the status and the body the handler returned
    \* ---- one run of Qdrant._scroll_points ----
    scroll           \* the loop's position, its locals and the pages it asked for

storeVars == <<metric, chroma, qdrantExists, qdrantConfig, qdrantPoints, uuidCount,
               supplied, lastOp, chromaOut, qdrantOut>>
ingestVars == <<ipc, batch_size, multi_chunk_mode, encoding_timings, total_records,
                total_embeddings, nFiles, fileIdx, recIdx, dbFile, modelLoaded,
                collection, output, exitCode, encodeLog, lastEmbed, passedFilters,
                entriesAdded, lastIter>>
serveVars == <<cache, constructed, rpc, rlocal, rendpoint>>
factoryVars == <<factoryLog, built>>
requestVars == <<request, collectionServed, hpc, locals, calls, returned>>
scrollVars == <<scroll>>
vars == <<storeVars, ingestVars, serveVars, factoryVars, requestVars, scrollVars>>

Min(a, b) == IF a <= b THEN a ELSE b

RECURSIVE SumSeq(_)
SumSeq(s) == IF s = <<>> THEN 0 ELSE Head(s) + SumSeq(Tail(s))

Range(s) == {s[i] : i \in 1..Len(s)}

(***************************************************************************)
(* Vector storage                                                          *)
(***************************************************************************)

\* qdrant.py:9-11
ID_KEY == "_id"
DOCUMENT_KEY == "_document"
SCROLL_SIZE == 64

\* Bounds of the storage model.
MaxPoints == 3      \* entries handed to add over a run
MaxBatch == 2       \* entries in one add call
MaxLimit == 3       \* largest limit passed to search

\* Metadata mappings a caller may pass. MetaReserved carries a key that
\* collides with Qdrant's reserved payload key.
MetaU1 == [warc_record_target_uri |-> "u1"]
MetaU2 == [warc_record_target_uri |-> "u2"]
MetaReserved == [warc_record_target_uri |-> "u1", _id |-> "x"]

\* The entries a caller may hand to add (one index of the four lists).
\* EntryA2 repeats EntryA1's id with other content.
EntryA1 == [id |-> "a", document |-> "one.warc", embedding |-> <<3, 0>>, metadata |-> MetaU1]
EntryA2 == [id |-> "a", document |-> "two.warc", embedding |-> <<1, 2>>, metadata |-> MetaU2]
EntryB1 == [id |-> "b", document |-> "two.warc", embedding |-> <<0, 1>>, metadata |-> MetaU2]
EntryC1 == [id |-> "c", document |-> "one.warc", embedding |-> <<2, 2>>, metadata |-> MetaReserved]
\* EntryD1 has an embedding of another dimensionality than the others.
EntryD1 == [id |-> "d", document |-> "two.warc", embedding |-> <<1, 1, 1>>, metadata |-> MetaU2]
Entries == {EntryA1, EntryA2, EntryB1, EntryC1, EntryD1}

\* The add calls enumerated: the lists of one call name each id once (a call
\* that repeats an id is rejected by Chroma, see ChromaAdd).
Batches == {b \in UNION {[1..n -> Entries] : n \in 1..MaxBatch} :
                \A i, j \in 1..Len(b) : i # j => b[i].id # b[j].id}
\* the query embeddings; the last has the dimensionality of EntryD1
Queries == {<<1, 0>>, <<1, 3>>, <<1, 0, 2>>}
\* "hamming" is a name neither backend supports
Metrics == {"cosine", "l2", "ip", "hamming"}

\* uuid.uuid4().hex: the n-th value drawn; all distinct, none a caller's id.
UuidPool == <<"uuid-1", "uuid-2", "uuid-3", "uuid-4", "uuid-5", "uuid-6",
              "uuid-7", "uuid-8", "uuid-9", "uuid-10", "uuid-11", "uuid-12">>
Uuid4(n) == UuidPool[n]

EmptyLists == [ids |-> <<>>, embeddings |-> <<>>, documents |-> <<>>, metadatas |-> <<>>]
NoOut == [status |-> "none", body |-> EmptyLists, error |-> <<>>]
Raised == [status |-> "raised", body |-> EmptyLists, error |-> <<>>]
Returned(body) == [status |-> "returned", body |-> body, error |-> <<>>]

Dot(u, v) == SumSeq([i \in 1..Len(u) |-> u[i] * v[i]])
Dist2(u, v) == SumSeq([i \in 1..Len(u) |-> (u[i] - v[i]) * (u[i] - v[i])])

\* a is at least as similar to q as b is, under metric m. The embeddings of the
\* model have non-negative components and are non-zero, so the cosine order is
\* the order of Dot^2 / |v|^2.
AtLeastAsSimilar(m, q, a, b) ==
    CASE m = "l2" -> Dist2(q, a) <= Dist2(q, b)
      [] m = "ip" -> Dot(q, a) >= Dot(q, b)
      [] OTHER    -> Dot(q, a) * Dot(q, a) * Dot(b, b) >= Dot(q, b) * Dot(q, b) * Dot(a, a)

\* The orders in which a similarity query may rank vecs (a sequence of
\* embeddings): every similarity-descending sequence of the indices in left,
\* built by taking a most similar one first.
RECURSIVE RankedFrom(_, _, _, _)
RankedFrom(m, q, vecs, left) ==
    IF left = {} THEN {<<>>}
    ELSE LET best == {i \in left :
                        \A j \in left : AtLeastAsSimilar(m, q, vecs[i], vecs[j])}
         IN UNION {{<<i>> \o rest : rest \in RankedFrom(m, q, vecs, left \ {i})} :
                    i \in best}

RankedOrders(m, q, vecs) == RankedFrom(m, q, vecs, 1..Len(vecs))

Prefix(s, k) == SubSeq(s, 1, Min(k, Len(s)))
\* ---- Chroma backend (chroma.py) ----

Columns(batch) ==
    [ids        |-> [i \in 1..Len(batch) |-> batch[i].id],
     embeddings |-> [i \in 1..Len(batch) |-> batch[i].embedding],
     documents  |-> [i \in 1..Len(batch) |-> batch[i].document],
     metadatas  |-> [i \in 1..Len(batch) |-> batch[i].metadata]]

HasRepeat(s) == \E i, j \in 1..Len(s) : i # j /\ s[i] = s[j]

\* the dimensionality of a Chroma collection: that of the first embedding it
\* was given (0 while it is empty)
ChromaDim(coll) == IF coll = <<>> THEN 0 ELSE Len(coll[1].embedding)

\* the embeddings of one call that Chroma's validation rejects: of unequal
\* lengths, or of another length than the collection's
ChromaRejects(coll, embeddings) ==
    \/ \E i \in 1..Len(embeddings) : Len(embeddings[i]) # Len(embeddings[1])
    \/ ChromaDim(coll) # 0 /\ Len(embeddings[1]) # ChromaDim(coll)

\* chroma_collection.add of a persistent client: a call that repeats an id
\* within its own lists, or whose embeddings are rejected, raises and stores
\* nothing; an id the collection already holds is skipped without an error and
\* the stored entry is kept as it is.
ChromaAdd(coll, documents, embeddings, metadatas, ids) ==
    IF HasRepeat(ids) \/ ChromaRejects(coll, embeddings)
    THEN [raised |-> TRUE, coll |-> coll]
    ELSE LET held == {coll[i].id : i \in 1..Len(coll)}
             fresh == SelectSeq([i \in 1..Len(ids) |->
                                    [id |-> ids[i], document |-> documents[i],
                                     embedding |-> embeddings[i],
                                     metadata |-> metadatas[i]]],
                                LAMBDA e : e.id \notin held)
         IN [raised |-> FALSE, coll |-> coll \o fresh]

\* chroma_collection.get(include=[metadatas, documents, embeddings])
ChromaGetAll(coll) == Columns(coll)

\* chroma_collection.query(n_results=limit) for one query embedding, unwrapped
\* with [0]: the possible responses (ties may come in either order).
ChromaSearch(coll, m, q, limit) ==
    {Columns(Prefix([i \in 1..Len(coll) |-> coll[p[i]]], limit)) :
        p \in RankedOrders(m, q, [i \in 1..Len(coll) |-> coll[i].embedding])}

\* ---- Qdrant backend (qdrant.py) ----

\* {**metadata, ID_KEY: id, DOCUMENT_KEY: document}
Payload(metadata, id, document) ==
    [k \in (DOMAIN metadata) \cup {ID_KEY, DOCUMENT_KEY} |->
        IF k = ID_KEY THEN id
        ELSE IF k = DOCUMENT_KEY THEN document
        ELSE metadata[k]]

\* payload.pop(key) on the deep copy: the value, and the payload without the key
Pop(payload, key) == [k \in (DOMAIN payload) \ {key} |-> payload[k]]

NoConfig == [size |-> 0, distance |-> "none"]

\* _convert_metric: the Distance of the mapping, or ValueError with its message
QdrantConvertMetric(m) ==
    CASE m = "cosine" -> [raised |-> FALSE, distance |-> "Distance.COSINE", error |-> <<>>]
      [] m = "l2"     -> [raised |-> FALSE, distance |-> "Distance.EUCLID", error |-> <<>>]
      [] m = "ip"     -> [raised |-> FALSE, distance |-> "Distance.DOT", error |-> <<>>]
      [] OTHER        -> [raised |-> TRUE, distance |-> "none",
                          error |-> <<"Unsupported Qdrant similarity metric: ", m>>]

\* _ensure_collection creating the collection anew on every call
QdrantEnsureCollectionRecreates(exists, config, size, m) ==
    LET converted == QdrantConvertMetric(m)
    IN IF converted.raised
       THEN [raised |-> TRUE, error |-> converted.error, exists |-> exists,
             config |-> config]
       ELSE [raised |-> FALSE, error |-> <<>>, exists |-> TRUE,
             config |-> [size |-> size, distance |-> converted.distance]]

\* _ensure_collection: create the collection, with the size asked for and the
\* distance of the environment, when the server has none; the metric is
\* converted only then
QdrantEnsureCollection(exists, config, size, m) ==
    LET converted == QdrantConvertMetric(m)
    IN IF exists
       THEN [raised |-> FALSE, error |-> <<>>, exists |-> exists, config |-> config]
       ELSE IF converted.raised
       THEN [raised |-> TRUE, error |-> converted.error, exists |-> exists,
             config |-> config]
       ELSE [raised |-> FALSE, error |-> <<>>, exists |-> TRUE,
             config |-> [size |-> size, distance |-> converted.distance]]

\* client.upsert(Batch(ids, vectors, payloads)): the points are applied one
\* after the other; a vector that has not the collection's size fails the
\* call, and the points applied before it may or may not have been kept.
QdrantUpsert(config, points, batch) ==
    LET bad == {i \in 1..Len(batch) : Len(batch[i].vector) # config.size}
    IN IF bad = {}
       THEN {[raised |-> FALSE, points |-> points \o batch]}
       ELSE LET first == CHOOSE i \in bad : \A j \in bad : i <= j
            IN {[raised |-> TRUE, points |-> points],
                [raised |-> TRUE, points |-> points \o SubSeq(batch, 1, first - 1)]}

\* Qdrant.add: the outcomes the call may have
QdrantAdd(exists, config, m, points, nuuid, documents, embeddings, metadatas, ids) ==
    LET ensured == QdrantEnsureCollection(exists, config, Len(embeddings[1]), m)
        n == Min(Len(documents), Min(Len(metadatas), Len(ids)))
        payloads == [i \in 1..n |-> Payload(metadatas[i], ids[i], documents[i])]
        pids == [i \in 1..Len(ids) |-> Uuid4(nuuid + i)]
        batch == [i \in 1..n |-> [id |-> pids[i], vector |-> embeddings[i],
                                  payload |-> payloads[i]]]
    IN IF ensured.raised
       THEN \* _ensure_collection raised: no id is drawn, nothing is sent
            {[raised |-> TRUE, error |-> ensured.error, exists |-> exists,
              config |-> config, points |-> points, nuuid |-> nuuid]}
       ELSE {[raised |-> up.raised,
              error  |-> <<>>,
              exists |-> ensured.exists,
              config |-> ensured.config,
              points |-> up.points,
              nuuid  |-> nuuid + Len(ids)] :
                 up \in QdrantUpsert(ensured.config, points, batch)}

\* The cursor client.scroll returns and takes: None, the id of a point as the
\* REST transport gives it, or the PointId message of the gRPC transport,
\* whose unset value has num 0 and an empty uuid.
None == [type |-> "NoneType", num |-> 0, uuid |-> ""]
Cursor(prefer_grpc, id) == [type |-> IF prefer_grpc THEN "PointId" ELSE "str", num |-> 0, uuid |-> id]
NoPointId == [type |-> "PointId", num |-> 0, uuid |-> ""]

\* client.scroll(collection_name, limit, offset): the page of at most limit
\* points that starts at the point offset names (at the first point for None
\* and for the unset PointId), and the id of the point after the page; after
\* the last page that is None, or the unset PointId over gRPC.
ClientScroll(points, limit, offset, prefer_grpc) ==
    LET first == IF offset.uuid = "" THEN 1
                 ELSE CHOOSE i \in 1..Len(points) : points[i].id = offset.uuid
        last == Min(first + limit - 1, Len(points))
    IN [response    |-> SubSeq(points, first, last),
        next_offset |-> IF last < Len(points) THEN Cursor(prefer_grpc, points[last + 1].id)
                        ELSE IF prefer_grpc THEN NoPointId ELSE None]

\* the loop left at the first cursor that is a PointId, set or not
StopScrollingAtAnyPointId(next_offset) ==
    next_offset = None \/ next_offset.type = "PointId"

\* _scroll_points, qdrant.py:114-118
StopScrolling(next_offset) ==
    next_offset = None
        \/ (next_offset.type = "PointId" /\ next_offset.num = 0 /\ next_offset.uuid = "")

\* _scroll_points: the loop run to its end, over the REST transport the
\* client uses unless QDRANT_PREFER_GRPC is set
RECURSIVE ScrollFrom(_, _, _)
ScrollFrom(points, offset, records) ==
    LET page == ClientScroll(points, SCROLL_SIZE, offset, FALSE)
    IN IF StopScrolling(page.next_offset)
       THEN records \o page.response
       ELSE ScrollFrom(points, page.next_offset, records \o page.response)

QdrantScrollPoints(points) == ScrollFrom(points, None, <<>>)

\* Unfold reading the point's own id and leaving the label in the payload
UnfoldPointIds(points) ==
    [ids        |-> [i \in 1..Len(points) |-> points[i].id],
     embeddings |-> [i \in 1..Len(points) |-> points[i].vector],
     documents  |-> [i \in 1..Len(points) |-> points[i].payload[DOCUMENT_KEY]],
     metadatas  |-> [i \in 1..Len(points) |-> Pop(points[i].payload, ID_KEY)]]

\* the loop shared by get_all and search: pop the reserved keys out of a copy
\* of each point's payload
Unfold(points) ==
    [ids        |-> [i \in 1..Len(points) |-> points[i].payload[ID_KEY]],
     embeddings |-> [i \in 1..Len(points) |-> points[i].vector],
     documents  |-> [i \in 1..Len(points) |-> points[i].payload[DOCUMENT_KEY]],
     metadatas  |-> [i \in 1..Len(points) |->
                        Pop(Pop(points[i].payload, ID_KEY), DOCUMENT_KEY)]]

QdrantGetAll(points) == Unfold(QdrantScrollPoints(points))

\* client.search(..., limit=True): the numeric limit is not passed on; the
\* client receives the boolean True, which is the integer 1.
QdrantSearchLimit(limit) == 1

QdrantSearch(points, m, q, limit) ==
    {Unfold(Prefix([i \in 1..Len(points) |-> points[p[i]]], QdrantSearchLimit(limit))) :
        p \in RankedOrders(m, q, [i \in 1..Len(points) |-> points[i].vector])}

\* ---- one storage call, made on both backends ----

\* chroma.py:15-18: the collection is made with hnsw:space set to the metric;
\* Chroma has no collection to work on under a space it does not know
ChromaAccepts(m) == m \in {"l2", "ip", "cosine"}

NoOp == [op |-> "none", batch |-> <<>>, q |-> <<>>, limit |-> 0]

StoreInit ==
    /\ metric \in Metrics
    /\ chroma = <<>>
    /\ qdrantExists = FALSE
    /\ qdrantConfig = NoConfig
    /\ qdrantPoints = <<>>
    /\ uuidCount = 0
    /\ supplied = {}
    /\ lastOp = NoOp
    /\ chromaOut = NoOut
    /\ qdrantOut = NoOut

\* VectorStorage.add(documents, embeddings, metadatas, ids)
Add(batch) ==
    /\ uuidCount + Len(batch) <= MaxPoints
    /\ LET c == Columns(batch)
           ca == ChromaAdd(chroma, c.documents, c.embeddings, c.metadatas, c.ids)
       IN /\ chroma' = IF ChromaAccepts(metric) THEN ca.coll ELSE chroma
          /\ chromaOut' = IF ChromaAccepts(metric) /\ ~ca.raised
                          THEN Returned(EmptyLists) ELSE Raised
          /\ \E qa \in QdrantAdd(qdrantExists, qdrantConfig, metric, qdrantPoints,
                                 uuidCount, c.documents, c.embeddings, c.metadatas, c.ids) :
                /\ qdrantExists' = qa.exists
                /\ qdrantConfig' = qa.config
                /\ qdrantPoints' = qa.points
                /\ uuidCount' = qa.nuuid
                /\ qdrantOut' = IF qa.raised THEN [Raised EXCEPT !.error = qa.error]
                                ELSE Returned(EmptyLists)
    /\ supplied' = supplied \cup Range(batch)
    /\ lastOp' = [op |-> "add", batch |-> batch, q |-> <<>>, limit |-> 0]
    /\ UNCHANGED <<metric, ingestVars, serveVars,
                   factoryVars, requestVars, scrollVars>>

\* VectorStorage.get_all()
GetAll ==
    /\ chromaOut' = IF ChromaAccepts(metric) THEN Returned(ChromaGetAll(chroma))
                    ELSE Raised
    /\ qdrantOut' = IF qdrantExists THEN Returned(QdrantGetAll(qdrantPoints)) ELSE Raised
    /\ lastOp' = [op |-> "get_all", batch |-> <<>>, q |-> <<>>, limit |-> 0]
    /\ UNCHANGED <<metric, chroma, qdrantExists, qdrantConfig, qdrantPoints, uuidCount,
                   supplied, ingestVars, serveVars,
                   factoryVars, requestVars, scrollVars>>

\* a query embedding of another dimensionality than the collection's is
\* rejected by either backend
QueryFits(dim, q) == dim = 0 \/ Len(q) = dim

\* VectorStorage.search(query_embedding, limit)
Search(q, limit) ==
    /\ IF ChromaAccepts(metric) /\ QueryFits(ChromaDim(chroma), q)
       THEN \E cr \in ChromaSearch(chroma, metric, q, limit) : chromaOut' = Returned(cr)
       ELSE chromaOut' = Raised
    /\ IF qdrantExists /\ QueryFits(qdrantConfig.size, q)
       THEN \E qr \in QdrantSearch(qdrantPoints, metric, q, limit) :
                qdrantOut' = Returned(qr)
       ELSE qdrantOut' = Raised
    /\ lastOp' = [op |-> "search", batch |-> <<>>, q |-> q, limit |-> limit]
    /\ UNCHANGED <<metric, chroma, qdrantExists, qdrantConfig, qdrantPoints, uuidCount,
                   supplied, ingestVars, serveVars,
                   factoryVars, requestVars, scrollVars>>

NextStore ==
    \/ \E batch \in Batches : Add(batch)
    \/ GetAll
    \/ \E q \in Queries, limit \in 1..MaxLimit : Search(q, limit)

(***************************************************************************)
(* The ingest command                                                      *)
(***************************************************************************)

\* Bounds of the ingest model.
MaxFiles == 2       \* archive files in WARC_FOLDER_PATH
MaxRecords == 3     \* records read over the run
MaxChunks == 2      \* chunks the text splitter returns for one record

BatchSizes == {0, 1, 2}      \* values of --batch-size
Durations == {1, 2, 3}       \* wall-clock durations of one encode call

HtmlType == "text/html; charset=utf-8"
PdfType == "application/pdf"

MinWords == 5

\* ingest.py:122-125: the headers the loop reads into record_data
AllFields == {"WARC-Record-ID", "WARC-Date", "WARC-Target-URI", "Content-Type"}

\* The records an archive may hold: one per path through the loop body.
\* fields are the headers the record carries; words is the number of
\* whitespace-delimited words of the text the extraction has accumulated (up
\* to the exception when it raises). In the HTML block the calls that can
\* raise (read, decode, the parser, soup.body) come before the first text node
\* is appended; in the PDF block a later page can raise after the text of
\* earlier pages has been appended.
Rec(rec_type, headers, fields, status, content_type, body, raises, words) ==
    [rec_type |-> rec_type, headers |-> headers, fields |-> fields,
     status |-> status, content_type |-> content_type, body |-> body,
     raises |-> raises, words |-> words]

RecordShapes ==
    {Rec("request",  TRUE,  AllFields, <<"2", "0", "0">>, HtmlType,    TRUE,  FALSE, 20),
     Rec("response", FALSE, AllFields, <<"2", "0", "0">>, HtmlType,    TRUE,  FALSE, 20),
     Rec("response", TRUE,  AllFields \ {"WARC-Record-ID"},  <<"2", "0", "0">>, HtmlType, TRUE, FALSE, 20),
     Rec("response", TRUE,  AllFields \ {"WARC-Date"},       <<"2", "0", "0">>, HtmlType, TRUE, FALSE, 20),
     Rec("response", TRUE,  AllFields \ {"WARC-Target-URI"}, <<"2", "0", "0">>, HtmlType, TRUE, FALSE, 20),
     Rec("response", TRUE,  AllFields \ {"Content-Type"},    <<"2", "0", "0">>, "",       TRUE, FALSE, 20),
     Rec("response", TRUE,  AllFields, <<"4", "0", "4">>, HtmlType,    TRUE,  FALSE, 20),
     Rec("response", TRUE,  AllFields, <<"3", "0", "1">>, PdfType,     TRUE,  FALSE, 20),
     Rec("response", TRUE,  AllFields, <<"2", "0", "0">>, HtmlType,    FALSE, FALSE, 0),
     Rec("response", TRUE,  AllFields, <<"2", "0", "0">>, HtmlType,    TRUE,  TRUE,  0),
     Rec("response", TRUE,  AllFields, <<"2", "0", "0">>, HtmlType,    TRUE,  FALSE, 0),
     Rec("response", TRUE,  AllFields, <<"2", "0", "0">>, HtmlType,    TRUE,  FALSE, 4),
     Rec("response", TRUE,  AllFields, <<"2", "0", "0">>, HtmlType,    TRUE,  FALSE, 5),
     Rec("response", TRUE,  AllFields, <<"2", "0", "4">>, HtmlType,    TRUE,  FALSE, 20),
     Rec("response", TRUE,  AllFields, <<"2", "0", "0">>, PdfType,     TRUE,  TRUE,  7),
     Rec("response", TRUE,  AllFields, <<"2", "0", "0">>, PdfType,     TRUE,  FALSE, 3),
     Rec("response", TRUE,  AllFields, <<"2", "0", "0">>, PdfType,     TRUE,  FALSE, 20),
     Rec("response", TRUE,  AllFields, <<"2", "0", "0">>, "image/png", TRUE,  FALSE, 0)}

\* str.startswith on the two prefixes the loop tests
IsHtml(content_type) == content_type \in {"text/html", HtmlType}
IsPdf(content_type) == content_type = PdfType

\* ExtractedWords with the PDF block falling through after a failure
ExtractedWordsKeepsPages(rec) ==
    LET html == IF ~IsHtml(rec.content_type) THEN 0
                ELSE IF rec.raises THEN rec.words
                ELSE IF ~rec.body THEN -1
                ELSE rec.words
    IN IF html = -1 THEN -1
       ELSE IF ~IsPdf(rec.content_type) THEN html
       ELSE html + rec.words

\* ingest.py:141-183: the words of record_data["warc_record_text"] after the
\* two extraction blocks, or "continue" when a block skips the record.
ExtractedWords(rec) ==
    LET html == IF ~IsHtml(rec.content_type) THEN 0
                ELSE IF rec.raises THEN rec.words          \* caught, falls through
                ELSE IF ~rec.body THEN -1                  \* continue
                ELSE rec.words
    IN IF html = -1 THEN -1
       ELSE IF ~IsPdf(rec.content_type) THEN html
       ELSE IF rec.raises THEN -1                          \* continue
       ELSE html + rec.words

\* Is2xx letting through every status that is not an error status
IsNot4xx5xx(status) == Len(status) >= 1 /\ status[1] \notin {"4", "5"}

\* http_headers.get_statuscode().startswith("2"), the status being a sequence
\* of characters
Is2xx(status) == Len(status) >= 1 /\ status[1] = "2"

\* Complete without the test of the capture date
CompleteButDate(rec) == (AllFields \ {"WARC-Date"}) \subseteq rec.fields

\* ingest.py:129-135: none of the four values read from the headers is empty
Complete(rec) == AllFields \subseteq rec.fields

\* TooFewWords with the bound one lower
TooFewWordsBelowFour(words) == words < MinWords - 1

\* ingest.py:191: len(record_data["warc_record_text"].split()) < 5
TooFewWords(words) == words < MinWords

\* ingest.py:111-192: TRUE when the loop body reaches total_records += 1
ReachesCount(rec) ==
    IF rec.rec_type # "response" THEN FALSE
    ELSE IF ~rec.headers THEN FALSE
    ELSE IF ~Complete(rec) THEN FALSE
    ELSE IF ~Is2xx(rec.status) THEN FALSE
    ELSE IF ExtractedWords(rec) = -1 THEN FALSE
    ELSE IF ExtractedWords(rec) = 0 THEN FALSE
    ELSE IF TooFewWords(ExtractedWords(rec)) THEN FALSE
    ELSE TRUE

\* ingest.py:141-183: an extraction block was entered and its calls raised
ExtractionRaised(rec) ==
    /\ rec.rec_type = "response" /\ rec.headers /\ Complete(rec) /\ Is2xx(rec.status)
    /\ IsHtml(rec.content_type) \/ IsPdf(rec.content_type)
    /\ rec.raises

\* ingest.py:111-231: the line at which the iteration over rec leaves the loop
\* body, n being the number of chunks the splitter returns
LeftAt(rec, n) ==
    IF rec.rec_type # "response" THEN 112
    ELSE IF ~rec.headers THEN 119
    ELSE IF ~Complete(rec) THEN 135
    ELSE IF ~Is2xx(rec.status) THEN 139
    ELSE IF IsHtml(rec.content_type) /\ ~rec.raises /\ ~rec.body THEN 152
    ELSE IF IsPdf(rec.content_type) /\ rec.raises THEN 183
    ELSE IF ExtractedWords(rec) = 0 THEN 189
    ELSE IF TooFewWords(ExtractedWords(rec)) THEN 192
    ELSE IF n = 0 THEN 202
    ELSE 231

NoIter == [left_at |-> 0, extraction_raised |-> FALSE]
Iter(rec, n) == [left_at |-> LeftAt(rec, n), extraction_raised |-> ExtractionRaised(rec)]

FileName(f) == <<"warc", f>>

\* Strings are sequences of characters.
Digits == <<"1", "2", "3", "4", "5", "6", "7", "8", "9">>
DecStr(k) == IF k = 0 THEN <<"0">> ELSE <<Digits[k]>>

\* environ VECTOR_SEARCH_CHUNK_PREFIX
chunk_prefix == <<"p", ":">>

\* rec_headers.get_header("WARC-Record-ID") of the r-th record of the run
RecordId(r) == <<"r">> \o DecStr(r)

\* text_splitter.split_text: the n chunks of the text of record r
SplitText(r, n) == [i \in 1..n |-> <<"t">> \o DecStr(r) \o <<".">> \o DecStr(i)]

\* ingest.py:205: [chunk_prefix + chunk for chunk in text_chunks]
TextChunks(r, n) == [i \in 1..n |-> chunk_prefix \o SplitText(r, n)[i]]

\* the vector the embedding model computes for one text
Encode(chunk) == <<"vector", chunk>>

\* embedding_model.encode(sentences, batch_size=...).tolist(): one vector per
\* sentence, in the order of the sentences
EncodeBatch(sentences, bsize) == [i \in 1..Len(sentences) |-> Encode(sentences[i])]

\* text_chunks[i][len(chunk_prefix):]
StripPrefix(chunk) == SubSeq(chunk, Len(chunk_prefix) + 1, Len(chunk))

\* Ids numbering the chunks from 0
IdsZeroBased(record_id, chunk_range) ==
    [k \in 1..Len(chunk_range) |-> record_id \o <<"-">> \o DecStr(chunk_range[k])]

\* ingest.py:257: [f"{record_data['warc_record_id']}-{i+1}" for i in chunk_range]
Ids(record_id, chunk_range) ==
    [k \in 1..Len(chunk_range) |-> record_id \o <<"-">> \o DecStr(chunk_range[k] + 1)]

\* Embeddings encoding the whole list for every chunk and taking its head
EmbeddingsHeadOfList(text_chunks, mode, bsize) ==
    IF mode
    THEN EncodeBatch(text_chunks, bsize)
    ELSE [k \in 1..Len(text_chunks) |-> EncodeBatch(text_chunks, 1)[1]]

\* ingest.py:267-293: one batched call in multi-chunk mode, one call per chunk
\* after it
Embeddings(text_chunks, mode, bsize) ==
    IF mode
    THEN EncodeBatch(text_chunks, bsize)
    ELSE [k \in 1..Len(text_chunks) |-> EncodeBatch(<<text_chunks[k]>>, 1)[1]]

\* TooSlow with the comparison made non-strict
TooSlowOrEqual(encoding_time, n, timings) ==
    IF Len(timings) = 0 THEN FALSE
    ELSE encoding_time * Len(timings) >= n * SumSeq(timings)

\* ingest.py:279-282: the batched call was too slow
TooSlow(encoding_time, n, timings) ==
    IF Len(timings) = 0 THEN FALSE
    ELSE encoding_time * Len(timings) > n * SumSeq(timings)

\* ModeAfter with the timing test made outside the `if multi_chunk_mode:`
ModeAfterRetested(mode, encoding_time, n, timings) ==
    IF n = 1 THEN mode ELSE ~TooSlow(encoding_time, n, timings)

\* ingest.py:267-283: multi_chunk_mode after a call made in mode `mode`
ModeAfter(mode, encoding_time, n, timings) ==
    IF mode
    THEN IF n = 1 THEN TRUE ELSE ~TooSlow(encoding_time, n, timings)
    ELSE FALSE

\* TimingsAfter with the sample taken in single-chunk mode too
TimingsAfterInAnyMode(mode, encoding_time, n, timings) ==
    IF n = 1 THEN Append(timings, encoding_time) ELSE timings

\* ingest.py:276-277: encoding_timings after a call made in mode `mode`
TimingsAfter(mode, encoding_time, n, timings) ==
    IF mode /\ n = 1 THEN Append(timings, encoding_time) ELSE timings

\* ingest.py:236-295
chunk_objects(file, r, text_chunks, mode, timings, bsize, encoding_time) ==
    LET n == Len(text_chunks)
        chunk_range == [k \in 1..n |-> k - 1]
    IN [documents |-> [i \in 1..n |-> FileName(file)],
        ids |-> Ids(RecordId(r), chunk_range),
        metadatas |-> [i \in 1..n |-> [warc_filename |-> FileName(file),
                                       warc_record_id |-> RecordId(r),
                                       warc_record_text |-> StripPrefix(text_chunks[i])]],
        embeddings |-> Embeddings(text_chunks, mode, bsize),
        calls |-> IF mode
                  THEN <<[first |-> 1, n |-> n, batch_size |-> bsize]>>
                  ELSE [i \in 1..n |-> [first |-> i, n |-> 1, batch_size |-> 1]],
        multi_chunk_mode |-> ModeAfter(mode, encoding_time, n, timings),
        encoding_timings |-> TimingsAfter(mode, encoding_time, n, timings)]

NoCollection == [created |-> FALSE, entries |-> <<>>]
Line(text, a, b) == [text |-> text, a |-> a, b |-> b]

NoEmbed == [rec |-> 0, multi_before |-> FALSE, n |-> 0, encoding_time |-> 0,
            timings_before |-> <<>>]

IngestIdle ==
    /\ ipc = "idle"
    /\ batch_size = 2
    /\ multi_chunk_mode = TRUE
    /\ encoding_timings = <<>>
    /\ total_records = 0
    /\ total_embeddings = 0
    /\ nFiles = 0
    /\ fileIdx = 0
    /\ recIdx = 0
    /\ dbFile = FALSE
    /\ modelLoaded = FALSE
    /\ collection = NoCollection
    /\ output = <<>>
    /\ exitCode = -1
    /\ encodeLog = <<>>
    /\ lastEmbed = NoEmbed
    /\ passedFilters = 0
    /\ entriesAdded = 0
    /\ lastIter = NoIter

\* the command is invoked: the option, the folder and the store path are the
\* environment's
IngestInit ==
    /\ ipc = "start"
    /\ batch_size \in BatchSizes
    /\ multi_chunk_mode = TRUE
    /\ encoding_timings = <<>>
    /\ total_records = 0
    /\ total_embeddings = 0
    /\ nFiles \in 0..MaxFiles
    /\ fileIdx = 0
    /\ recIdx = 0
    /\ dbFile \in BOOLEAN
    /\ modelLoaded = FALSE
    /\ collection = NoCollection
    /\ output = <<>>
    /\ exitCode = -1
    /\ encodeLog = <<>>
    /\ lastEmbed = NoEmbed
    /\ passedFilters = 0
    /\ entriesAdded = 0
    /\ lastIter = NoIter

\* SetupResult with the model and the collection initialised before the list
\* of files is looked at
SetupResultChecksLate(bsize, nfiles, db) ==
    IF bsize < 1
    THEN [ipc |-> "done", exitCode |-> 2, output |-> <<>>, dbFile |-> db,
          modelLoaded |-> FALSE, collection |-> NoCollection]
    ELSE IF nfiles = 0
    THEN [ipc |-> "done", exitCode |-> 1,
          output |-> <<Line("No WARC files to ingest.", 0, 0)>>,
          dbFile |-> TRUE, modelLoaded |-> TRUE,
          collection |-> [created |-> TRUE, entries |-> <<>>]]
    ELSE [ipc |-> "records", exitCode |-> -1,
          output |-> <<Line("WARC files to ingest.", nfiles, 0)>>,
          dbFile |-> TRUE, modelLoaded |-> TRUE,
          collection |-> [created |-> TRUE, entries |-> <<>>]]

\* ingest.py:51-96, from the option check to the creation of the collection:
\* what the command has done when it enters the loop over the files, or
\* has stopped before it. db is whether a database file was on disk.
SetupResult(bsize, nfiles, db) ==
    IF bsize < 1
    THEN \* click.UsageError, before anything is touched
         [ipc |-> "done", exitCode |-> 2, output |-> <<>>, dbFile |-> db,
          modelLoaded |-> FALSE, collection |-> NoCollection]
    ELSE IF nfiles = 0
    THEN \* rmtree + makedirs, then exit(1)
         [ipc |-> "done", exitCode |-> 1,
          output |-> <<Line("No WARC files to ingest.", 0, 0)>>,
          dbFile |-> FALSE, modelLoaded |-> FALSE, collection |-> NoCollection]
    ELSE [ipc |-> "records", exitCode |-> -1,
          output |-> <<Line("WARC files to ingest.", nfiles, 0)>>,
          dbFile |-> TRUE, modelLoaded |-> TRUE,
          collection |-> [created |-> TRUE, entries |-> <<>>]]

IngestSetup ==
    /\ ipc = "start"
    /\ LET res == SetupResult(batch_size, nFiles, dbFile)
       IN /\ ipc' = res.ipc
          /\ exitCode' = res.exitCode
          /\ output' = res.output
          /\ dbFile' = res.dbFile
          /\ modelLoaded' = res.modelLoaded
          /\ collection' = res.collection
          /\ fileIdx' = IF res.ipc = "records" THEN 1 ELSE fileIdx
    /\ multi_chunk_mode' = (batch_size > 1)
    /\ UNCHANGED <<batch_size, encoding_timings, total_records, total_embeddings,
                   nFiles, recIdx, encodeLog, lastEmbed, passedFilters, entriesAdded,
                   lastIter, storeVars, serveVars,
                   factoryVars, requestVars, scrollVars>>

\* ingest.py:188-195
CountRecord(total, rec) == IF ReachesCount(rec) THEN total + 1 ELSE total

\* CountEmbeddings advancing by one per record
CountEmbeddingsPerRecord(total, embeddings) == total + 1

\* ingest.py:223
CountEmbeddings(total, embeddings) == total + Len(embeddings)

\* the claim's notion of a record that passes every filter: a complete 2xx
\* response whose extraction was not skipped and left at least five words
PassesEveryFilter(rec) ==
    /\ rec.rec_type = "response"
    /\ rec.headers /\ Complete(rec)
    /\ Is2xx(rec.status)
    /\ ExtractedWords(rec) >= MinWords

EmbedRecord(r, n, encoding_time) ==
    [rec |-> r, multi_before |-> multi_chunk_mode, n |-> n,
     encoding_time |-> IF multi_chunk_mode THEN encoding_time ELSE 0,
     timings_before |-> encoding_timings]

\* ingest.py:108-231: one iteration of the loop over the records of a file
\* that runs to its end. The WARC-Record-ID of a record is its position in the
\* run (recIdx + 1): record ids are unique over the archives read. rec is the
\* record read, n the number of chunks the splitter returns for its text,
\* encoding_time the duration of the batched encode call.
IngestRecord(rec, n, encoding_time) ==
    /\ ipc = "records"
    /\ recIdx < MaxRecords
    /\ recIdx' = recIdx + 1
    /\ total_records' = CountRecord(total_records, rec)
    /\ passedFilters' = passedFilters + (IF PassesEveryFilter(rec) THEN 1 ELSE 0)
    /\ IF ReachesCount(rec) /\ n > 0
       THEN LET co == chunk_objects(fileIdx, recIdx + 1, TextChunks(recIdx + 1, n),
                                    multi_chunk_mode, encoding_timings, batch_size,
                                    encoding_time)
                added == ChromaAdd(collection.entries, co.documents, co.embeddings,
                                   co.metadatas, co.ids)
            IN /\ multi_chunk_mode' = co.multi_chunk_mode
               /\ encoding_timings' = co.encoding_timings
               /\ total_embeddings' = CountEmbeddings(total_embeddings, co.embeddings)
               /\ collection' = [collection EXCEPT !.entries = added.coll]
               /\ entriesAdded' = entriesAdded + Len(co.ids)
               /\ encodeLog' = co.calls
               /\ lastEmbed' = EmbedRecord(recIdx + 1, n, encoding_time)
       ELSE UNCHANGED <<multi_chunk_mode, encoding_timings, total_embeddings,
                        collection, entriesAdded, encodeLog, lastEmbed>>
    /\ lastIter' = Iter(rec, n)
    /\ UNCHANGED <<ipc, batch_size, nFiles, fileIdx, dbFile, modelLoaded, output,
                   exitCode, storeVars, serveVars,
                   factoryVars, requestVars, scrollVars>>

\* Uncaught with the failing record skipped and the loop going on
UncaughtSkipsRecord(pc, code) == [ipc |-> pc, exitCode |-> code]

\* ingest.py:208-231: neither chunk_objects nor chroma_collection.add is called
\* inside a try statement; an exception raised there leaves ingest and the
\* interpreter exits with status 1
Uncaught(pc, code) == [ipc |-> "done", exitCode |-> 1]

\* ingest.py:269 / 287: the k-th embedding_model.encode call of chunk_objects
\* raises (the one batched call, or the call for the k-th chunk); nothing
\* catches it and the command ends with the exception
EncodeRaises(rec, n, k) ==
    /\ ipc = "records"
    /\ recIdx < MaxRecords
    /\ ReachesCount(rec) /\ n > 0
    /\ k <= (IF multi_chunk_mode THEN 1 ELSE n)
    /\ recIdx' = recIdx + 1
    /\ total_records' = CountRecord(total_records, rec)
    /\ passedFilters' = passedFilters + (IF PassesEveryFilter(rec) THEN 1 ELSE 0)
    /\ encodeLog' = SubSeq(chunk_objects(fileIdx, recIdx + 1, TextChunks(recIdx + 1, n),
                                         multi_chunk_mode, encoding_timings, batch_size,
                                         0).calls, 1, k)
    /\ lastIter' = [left_at |-> IF multi_chunk_mode THEN 269 ELSE 287,
                    extraction_raised |-> FALSE]
    /\ ipc' = Uncaught(ipc, exitCode).ipc
    /\ exitCode' = Uncaught(ipc, exitCode).exitCode
    /\ UNCHANGED <<batch_size, multi_chunk_mode, encoding_timings, total_embeddings,
                   nFiles, fileIdx, dbFile, modelLoaded, collection, output,
                   lastEmbed, entriesAdded, storeVars, serveVars,
                   factoryVars, requestVars, scrollVars>>

\* ingest.py:226: chroma_collection.add raises (a storage write failure),
\* after the counter of line 223 has been advanced
AddRaises(rec, n, encoding_time) ==
    /\ ipc = "records"
    /\ recIdx < MaxRecords
    /\ ReachesCount(rec) /\ n > 0
    /\ recIdx' = recIdx + 1
    /\ total_records' = CountRecord(total_records, rec)
    /\ passedFilters' = passedFilters + (IF PassesEveryFilter(rec) THEN 1 ELSE 0)
    /\ LET co == chunk_objects(fileIdx, recIdx + 1, TextChunks(recIdx + 1, n),
                               multi_chunk_mode, encoding_timings, batch_size,
                               encoding_time)
       IN /\ multi_chunk_mode' = co.multi_chunk_mode
          /\ encoding_timings' = co.encoding_timings
          /\ total_embeddings' = CountEmbeddings(total_embeddings, co.embeddings)
          /\ encodeLog' = co.calls
          /\ lastEmbed' = EmbedRecord(recIdx + 1, n, encoding_time)
    /\ lastIter' = [left_at |-> 226, extraction_raised |-> FALSE]
    /\ ipc' = Uncaught(ipc, exitCode).ipc
    /\ exitCode' = Uncaught(ipc, exitCode).exitCode
    /\ UNCHANGED <<batch_size, nFiles, fileIdx, dbFile, modelLoaded, collection,
                   output, entriesAdded, storeVars, serveVars,
                   factoryVars, requestVars, scrollVars>>

\* ingest.py:104-108: the archive iterator is exhausted and another file follows
NextFile ==
    /\ ipc = "records"
    /\ fileIdx < nFiles
    /\ fileIdx' = fileIdx + 1
    /\ UNCHANGED <<ipc, batch_size, multi_chunk_mode, encoding_timings, total_records,
                   total_embeddings, nFiles, recIdx, dbFile, modelLoaded, collection,
                   output, exitCode, encodeLog, lastEmbed, passedFilters, entriesAdded,
                   lastIter, storeVars, serveVars,
                   factoryVars, requestVars, scrollVars>>

\* ingest.py:233: the last file is exhausted; the summary is echoed
IngestFinish ==
    /\ ipc = "records"
    /\ fileIdx = nFiles
    /\ output' = Append(output, Line("Total", total_embeddings, total_records))
    /\ ipc' = "done"
    /\ exitCode' = 0
    /\ UNCHANGED <<batch_size, multi_chunk_mode, encoding_timings, total_records,
                   total_embeddings, nFiles, fileIdx, recIdx, dbFile, modelLoaded,
                   collection, encodeLog, lastEmbed, passedFilters, entriesAdded,
                   lastIter, storeVars, serveVars,
                   factoryVars, requestVars, scrollVars>>

\* the records that reach the splitter, the chunk counts the splitter may
\* return for a record, and the durations perf_counter may measure (nothing
\* is timed once multi-chunk mode is left)
Embeddable == {rec \in RecordShapes : ReachesCount(rec)}
ChunkCounts(rec) == IF ReachesCount(rec) THEN 0..MaxChunks ELSE {0}
Measured(n) == IF multi_chunk_mode /\ n > 0 THEN Durations ELSE {1}

NextIngest ==
    \/ IngestSetup
    \/ \E rec \in RecordShapes : \E n \in ChunkCounts(rec) : \E t \in Measured(n) :
          IngestRecord(rec, n, t)
    \/ \E rec \in Embeddable, n \in 1..MaxChunks, k \in 1..MaxChunks :
          EncodeRaises(rec, n, k)
    \/ \E rec \in Embeddable, n \in 1..MaxChunks : \E t \in Measured(n) :
          AddRaises(rec, n, t)
    \/ NextFile
    \/ IngestFinish

(***************************************************************************)
(* Serving: the lazily initialised handles of /api/search and              *)
(* /api/completion                                                         *)
(***************************************************************************)

MaxRequests == 2    \* requests in flight over a run

Requests == 1..MaxRequests
Endpoints == {"search", "completion"}

\* the keys of vector_store_cache, in the order the handlers load them
HandleKeys == <<"embedding_model", "chroma_client", "chroma_collection">>
Keys == Range(HandleKeys)

\* search.py:13-17 and api.py:18-22: each module has its own dictionary;
\* 0 stands for None, n > 0 for the n-th object constructed for that key
vector_store_cache == [k \in Keys |-> 0]

NoLocals == [k \in Keys |-> 0]

ServeIdle ==
    /\ cache = [e \in Endpoints |-> vector_store_cache]
    /\ constructed = [k \in Keys |-> 0]
    /\ rpc = [r \in Requests |-> <<"idle", 0>>]
    /\ rlocal = [r \in Requests |-> NoLocals]
    /\ rendpoint = [r \in Requests |-> "search"]

\* search.py:38-56, api.py:61-160: the request is parsed and validated;
\* an invalid one is answered 400 before any handle is looked at
Arrive(r, e, valid) ==
    /\ rpc[r] = <<"idle", 0>>
    /\ rendpoint' = [rendpoint EXCEPT ![r] = e]
    /\ rpc' = [rpc EXCEPT ![r] = IF valid THEN <<"check", 1>> ELSE <<"400", 0>>]
    /\ UNCHANGED <<cache, constructed, rlocal, storeVars, ingestVars,
                   factoryVars, requestVars, scrollVars>>

AfterLoad(i) == IF i < Len(HandleKeys) THEN <<"check", i + 1>> ELSE <<"retrieve", 0>>

\* `if vector_store_cache.get(key, None) is None:` and its else branch
CheckCache(r, i) ==
    /\ rpc[r] = <<"check", i>>
    /\ LET k == HandleKeys[i]
           cached == cache[rendpoint[r]][k]
       IN IF cached = 0
          THEN /\ rpc' = [rpc EXCEPT ![r] = <<"construct", i>>]
               /\ UNCHANGED rlocal
          ELSE /\ rlocal' = [rlocal EXCEPT ![r][k] = cached]
               /\ rpc' = [rpc EXCEPT ![r] = AfterLoad(i)]
    /\ UNCHANGED <<cache, constructed, rendpoint, storeVars, ingestVars,
                   factoryVars, requestVars, scrollVars>>

\* the constructor call: SentenceTransformer(...), PersistentClient(...),
\* get_collection(...)
Construct(r, i) ==
    /\ rpc[r] = <<"construct", i>>
    /\ LET k == HandleKeys[i]
       IN /\ constructed' = [constructed EXCEPT ![k] = @ + 1]
          /\ rlocal' = [rlocal EXCEPT ![r][k] = constructed[k] + 1]
    /\ rpc' = [rpc EXCEPT ![r] = <<"store", i>>]
    /\ UNCHANGED <<cache, rendpoint, storeVars, ingestVars,
                   factoryVars, requestVars, scrollVars>>

\* ConstructRaises marking the slot as failed, so that no request loads it again
ConstructRaisesMarksSlot(r, i) ==
    /\ rpc[r] = <<"construct", i>>
    /\ rpc' = [rpc EXCEPT ![r] = <<"500", i>>]
    /\ cache' = [cache EXCEPT ![rendpoint[r]][HandleKeys[i]] = -1]
    /\ UNCHANGED <<constructed, rlocal, rendpoint, storeVars, ingestVars,
                   factoryVars, requestVars, scrollVars>>

\* the constructor raises: the except branch answers 500
ConstructRaises(r, i) ==
    /\ rpc[r] = <<"construct", i>>
    /\ rpc' = [rpc EXCEPT ![r] = <<"500", i>>]
    /\ UNCHANGED <<cache, constructed, rlocal, rendpoint, storeVars, ingestVars,
                   factoryVars, requestVars, scrollVars>>

\* vector_store_cache[key] = handle
StoreInCache(r, i) ==
    /\ rpc[r] = <<"store", i>>
    /\ LET k == HandleKeys[i]
       IN cache' = [cache EXCEPT ![rendpoint[r]][k] = rlocal[r][k]]
    /\ rpc' = [rpc EXCEPT ![r] = AfterLoad(i)]
    /\ UNCHANGED <<constructed, rlocal, rendpoint, storeVars, ingestVars,
                   factoryVars, requestVars, scrollVars>>

\* the rest of the handler, which uses the local handles
Respond(r) ==
    /\ rpc[r] = <<"retrieve", 0>>
    /\ rpc' = [rpc EXCEPT ![r] = <<"200", 0>>]
    /\ UNCHANGED <<cache, constructed, rlocal, rendpoint, storeVars, ingestVars,
                   factoryVars, requestVars, scrollVars>>

NextServe ==
    \/ \E r \in Requests, e \in Endpoints, valid \in BOOLEAN : Arrive(r, e, valid)
    \/ \E r \in Requests, i \in 1..Len(HandleKeys) : CheckCache(r, i)
    \/ \E r \in Requests, i \in 1..Len(HandleKeys) : Construct(r, i)
    \/ \E r \in Requests, i \in 1..Len(HandleKeys) : ConstructRaises(r, i)
    \/ \E r \in Requests, i \in 1..Len(HandleKeys) : StoreInCache(r, i)
    \/ \E r \in Requests : Respond(r)

(***************************************************************************)
(* The backend factory                                                     *)
(***************************************************************************)

MaxMakes == 2       \* make_storage calls over a run

\* vector_storage/__init__.py: the subclasses of VectorStorage, in the order
\* they are imported (cls.__subclasses__()), by __name__
Subclasses == <<<<"C", "h", "r", "o", "m", "a">>, <<"Q", "d", "r", "a", "n", "t">>>>

\* the names a caller may pass
StorageNames ==
    {<<"c", "h", "r", "o", "m", "a">>,
     <<"C", "h", "r", "o", "m", "a">>,
     <<"C", "H", "R", "O", "M", "A">>,
     <<"q", "d", "r", "a", "n", "t">>,
     <<"Q", "d", "r", "a", "n", "t">>,
     <<"Q", "D", "R", "A", "N", "T">>,
     <<"q", "D", "r", "A", "n", "T">>,
     <<"f", "a", "i", "s", "s">>,
     <<>>,
     <<"c", "h", "r", "o", "m", "a", " ">>,
     <<"Q", "d", "r", "a", "n">>,
     <<"V", "e", "c", "t", "o", "r", "S", "t", "o", "r", "a", "g", "e">>}

\* str.lower on the characters of the model
LowerChar(c) ==
    CASE c = "C" -> "c"
      [] c = "H" -> "h"
      [] c = "R" -> "r"
      [] c = "O" -> "o"
      [] c = "M" -> "m"
      [] c = "A" -> "a"
      [] c = "Q" -> "q"
      [] c = "D" -> "d"
      [] c = "N" -> "n"
      [] c = "T" -> "t"
      [] c = "V" -> "v"
      [] c = "S" -> "s"
      [] OTHER -> c
Lower(str) == [i \in 1..Len(str) |-> LowerChar(str[i])]

\* ', '.join(keys)
RECURSIVE Join(_, _)
Join(keys, sep) ==
    IF keys = <<>> THEN <<>>
    ELSE IF Len(keys) = 1 THEN keys[1]
    ELSE keys[1] \o sep \o Join(Tail(keys), sep)

\* the f-string of the ValueError; the two fixed texts are one element each
NotFoundMessage(name, keys) ==
    <<"Vector storage '">> \o name
        \o <<"' not found. Available storage options are: ">> \o Join(keys, <<",", " ">>)

\* make_storage looking the name up as it was given
make_storage_name_as_given(name) ==
    LET keys == [i \in 1..Len(Subclasses) |-> Lower(Subclasses[i])]
        hits == {i \in 1..Len(keys) : keys[i] = name}
    IN IF hits # {}
       THEN [raised |-> FALSE, instance |-> Subclasses[CHOOSE i \in hits : TRUE],
             message |-> <<>>]
       ELSE [raised |-> TRUE, instance |-> <<>>, message |-> NotFoundMessage(name, keys)]

\* VectorStorage.make_storage(name): the class looked up under name.lower()
\* is constructed, or ValueError is raised
make_storage(name) ==
    LET keys == [i \in 1..Len(Subclasses) |-> Lower(Subclasses[i])]
        hits == {i \in 1..Len(keys) : keys[i] = Lower(name)}
    IN IF hits # {}
       THEN [raised |-> FALSE, instance |-> Subclasses[CHOOSE i \in hits : TRUE],
             message |-> <<>>]
       ELSE [raised |-> TRUE, instance |-> <<>>, message |-> NotFoundMessage(name, keys)]

FactoryIdle ==
    /\ factoryLog = <<>>
    /\ built = <<>>

MakeStorage(name) ==
    /\ Len(factoryLog) < MaxMakes
    /\ LET made == make_storage(name)
       IN /\ factoryLog' = Append(factoryLog, [name |-> name, made |-> made])
          /\ built' = IF made.raised THEN built ELSE Append(built, made.instance)
    /\ UNCHANGED <<storeVars, ingestVars, serveVars, requestVars, scrollVars>>

NextFactory == \E name \in StorageNames : MakeStorage(name)

(***************************************************************************)
(* One request through its handler: /api/search, /api/completion and       *)
(* /api/complete.  Texts are sequences of tokens, so that str(), strip()    *)
(* and replace() are computed.                                              *)
(***************************************************************************)

MaxServed == 2      \* entries in the collection the handlers query
MaxResults == 1     \* environ VECTOR_SEARCH_SEARCH_N_RESULTS
MaxContext == 3     \* tokens litellm allows the messages of the model

\* ---- JSON values of the request body ----
J(type, value) == [type |-> type, value |-> value]
Absent == J("absent", 0)            \* the key is not in the object
JNull == J("null", 0)

\* `key in input` on a JSON object
Has(input, key) == input[key].type # "absent"

\* ---- Python string functions ----
RECURSIVE LStrip(_)
LStrip(s) == IF s # <<>> /\ Head(s) \in {" ", "\n"} THEN LStrip(Tail(s)) ELSE s
RECURSIVE RStrip(_)
RStrip(s) ==
    IF s # <<>> /\ s[Len(s)] \in {" ", "\n"} THEN RStrip(SubSeq(s, 1, Len(s) - 1)) ELSE s
Strip(s) == RStrip(LStrip(s))

\* str(value)
Str(v) ==
    CASE v.type = "string" -> v.value
      [] v.type = "null" -> <<"None">>
      [] v.type = "bool" -> IF v.value THEN <<"True">> ELSE <<"False">>
      [] v.type = "number" -> DecStr(v.value)
      [] OTHER -> <<"[", "]">>

\* text.replace(placeholder, by), the placeholder being one token
RECURSIVE Replace(_, _, _)
Replace(text, placeholder, by) ==
    IF text = <<>> THEN <<>>
    ELSE (IF Head(text) = placeholder THEN by ELSE <<Head(text)>>)
             \o Replace(Tail(text), placeholder, by)

\* ---- environment ----
environ ==
    [VECTOR_SEARCH_QUERY_PREFIX |-> <<"q", ":">>,
     RAG_PROMPT |-> <<"{context}", "Q", ":", "{question}", "\n">>,
     TEXT_COMPLETION_BASE_PROMPT |-> <<"{history}", "{rag}", "{request}">>,
     TEXT_COMPLETION_RAG_PROMPT |-> <<"Sources", ":", "{context}">>,
     TEXT_COMPLETION_HISTORY_PROMPT |-> <<"Earlier", ":", "{history}">>]
available_models == {<<"openai/", "gpt-4">>}            \* list_available_models()

\* the metadatas of the collection, nearest to the query first; the text of
\* the first page holds the character strings "{question}" and "{request}"
Served ==
    <<[warc_filename |-> "one.warc", warc_record_id |-> "r1",
       warc_record_date |-> "d1", warc_record_target_uri |-> "u1",
       warc_record_content_type |-> "text/html",
       warc_record_text |-> <<"t1", "{question}", "{request}">>],
      [warc_filename |-> "two.warc", warc_record_id |-> "r2",
       warc_record_date |-> "d2", warc_record_target_uri |-> "u2",
       warc_record_content_type |-> "text/html", warc_record_text |-> <<"t2">>],
      [warc_filename |-> "two.warc", warc_record_id |-> "r3",
       warc_record_date |-> "d3", warc_record_target_uri |-> "u3",
       warc_record_content_type |-> "application/pdf", warc_record_text |-> <<"t3">>]>>

\* ---- the bodies a client may send ----
\* the values each key is sent with
Sent ==
    [message |-> {Absent, JNull, J("string", <<>>), J("string", <<" ", "\n">>),
                  J("string", <<" ", "hi", " ">>),
                  J("string", <<"what", " ", "is", " ", "{context}">>)},
     model |-> {Absent, J("string", <<"nope">>), J("string", <<"openai/", "gpt-4">>)},
     no_rag |-> {Absent, J("bool", TRUE), J("bool", FALSE), J("string", <<"true">>)},
     rag_prompt_override |->
         {Absent, J("number", 1), J("string", <<" ">>),
          J("string", <<"{question}", "!", "{context}", " ">>)},
     temperature |-> {Absent, J("number", 1), J("string", <<"hot">>)},
     max_tokens |-> {Absent, J("number", 0), J("number", 1), JNull},
     history |->
         {Absent,
          J("array", <<[role |-> "user", content |-> <<"before">>],
                       [role |-> "assistant", content |-> <<"then">>]>>),
          J("array", <<[role |-> "user", content |-> <<>>]>>)},
     search_results |->
         {Absent, J("array", <<>>), J("array", SubSeq(Served, 1, 1)),
          J("array", <<[warc_filename |-> "one.warc"]>>)}]

\* {"model": ..., "message": " hi "} with a model that is available
Plain ==
    [type |-> "object", message |-> J("string", <<" ", "hi", " ">>),
     model |-> J("string", <<"openai/", "gpt-4">>), no_rag |-> Absent,
     rag_prompt_override |-> Absent, temperature |-> Absent, max_tokens |-> Absent,
     history |-> Absent, search_results |-> Absent]

\* each handler is sent the keys it reads; the body `null` is valid JSON too
Bodies(endpoint) ==
    {JNull} \cup
    CASE endpoint = "search" ->
           {[Plain EXCEPT !.message = m, !.model = Absent] : m \in Sent.message}
      [] endpoint = "completion" ->
           {[Plain EXCEPT !.message = m, !.model = mo, !.no_rag = nr,
                          !.rag_prompt_override = ov] :
                m \in Sent.message, mo \in Sent.model, nr \in Sent.no_rag,
                ov \in Sent.rag_prompt_override}
           \cup {[Plain EXCEPT !.no_rag = nr, !.temperature = t, !.max_tokens = mt,
                               !.history = h] :
                nr \in {J("bool", TRUE), J("bool", FALSE)}, t \in Sent.temperature,
                mt \in Sent.max_tokens, h \in Sent.history}
      [] endpoint = "complete" ->
           {[Plain EXCEPT !.message = m, !.model = mo, !.history = h,
                          !.search_results = sr] :
                m \in Sent.message, mo \in Sent.model, h \in Sent.history,
                sr \in Sent.search_results}
           \cup {[Plain EXCEPT !.temperature = t, !.max_tokens = mt] :
                t \in Sent.temperature, mt \in Sent.max_tokens}

\* ---- validation ----
Answer(status, error) == [status |-> status, error |-> error, body |-> <<>>]
NoResults == [is_none |-> TRUE, metadatas |-> <<>>]

\* the handler's locals as they are initialised; max_tokens 0 stands for None
InitialLocals ==
    [model |-> <<>>, message |-> <<>>, temperature |-> 0, max_tokens |-> 0,
     no_rag |-> FALSE, rag_prompt_override |-> <<>>, history |-> <<>>,
     search_results |-> <<>>, vector_search_results |-> NoResults,
     context |-> <<>>, prompt |-> <<>>]

Proceed(l) == [status |-> 0, error |-> "", locals |-> l]
Reject(error) == [status |-> 400, error |-> error, locals |-> InitialLocals]
\* an exception no except clause of the handler catches: Flask answers 500
Crash == [status |-> 500, error |-> "Internal Server Error", locals |-> InitialLocals]

\* float(value) / int(value) followed by the assert on the range
FloatOk(v) == v.type \in {"number", "bool"} /\ (v.type = "number" => v.value >= 0)
IntOk(v) == v.type \in {"number", "bool"} /\ (v.type = "number" => v.value > 0)
Number(v) == IF v.type = "number" THEN v.value ELSE IF v.value THEN 1 ELSE 0
HistoryOk(v) ==
    v.type = "array" /\ \A i \in 1..Len(v.value) :
                            v.value[i].role # "" /\ v.value[i].content # <<>>
SearchResultsOk(v) ==
    v.type = "array" /\ \A i \in 1..Len(v.value) :
                            DOMAIN v.value[i] = DOMAIN Served[1]

\* search.py:38-56
ValidateSearch(input) ==
    IF input.type # "object" THEN Crash
    ELSE IF ~Has(input, "message") THEN Reject("No message provided.")
    ELSE LET message == Strip(Str(input.message))
         IN IF message = <<>> THEN Reject("Message cannot be empty.")
            ELSE Proceed([InitialLocals EXCEPT !.message = message])

\* api.py:82-99 and complete.py:57-74: "model", then "message"
ModelAndMessage(input) ==
    IF input.type # "object" THEN Crash
    ELSE IF ~Has(input, "model") THEN Reject("No model provided.")
    ELSE IF input.model.type # "string" \/ input.model.value \notin available_models
    THEN Reject("Requested model is invalid or not available.")
    ELSE IF ~Has(input, "message") THEN Reject("No message provided.")
    ELSE LET message == Strip(Str(input.message))
         IN IF message = <<>> THEN Reject("Message cannot be empty.")
            ELSE Proceed([InitialLocals EXCEPT !.model = input.model.value,
                                               !.message = message])

\* api.py:61-160
ValidateCompletion(input) ==
    LET first == ModelAndMessage(input)
    IN IF first.status # 0 THEN first
       ELSE IF Has(input, "temperature") /\ ~FloatOk(input.temperature)
       THEN Reject("temperature must be a float superior or equal to 0.0.")
       ELSE IF Has(input, "max_tokens") /\ ~IntOk(input.max_tokens)
       THEN Reject("max_tokens must be an int superior to 0.")
       ELSE IF Has(input, "history") /\ ~HistoryOk(input.history)
       THEN Reject("past_messages must be an array of chat completion objects.")
       ELSE Proceed([first.locals EXCEPT
                !.temperature = IF Has(input, "temperature")
                                THEN Number(input.temperature) ELSE 0,
                !.max_tokens = IF Has(input, "max_tokens")
                               THEN Number(input.max_tokens) ELSE 0,
                \* 127-144: a value of another type is ignored with a warning
                !.no_rag = IF Has(input, "no_rag") /\ input.no_rag.type = "bool"
                           THEN input.no_rag.value ELSE FALSE,
                !.rag_prompt_override =
                    IF Has(input, "rag_prompt_override")
                       /\ input.rag_prompt_override.type = "string"
                    THEN Strip(input.rag_prompt_override.value) ELSE <<>>,
                !.history = IF Has(input, "history") THEN input.history.value ELSE <<>>])

\* complete.py:40-130
ValidateComplete(input) ==
    LET first == ModelAndMessage(input)
    IN IF first.status # 0 THEN first
       ELSE IF Has(input, "search_results") /\ ~SearchResultsOk(input.search_results)
       THEN Reject("search_results must be the output of /api/search.")
       ELSE IF Has(input, "temperature") /\ ~FloatOk(input.temperature)
       THEN Reject("temperature must be a float superior or equal to 0.0.")
       ELSE IF Has(input, "max_tokens") /\ input.max_tokens.type # "null"
               /\ ~IntOk(input.max_tokens)
       THEN Reject("max_tokens must be an int superior to 0.")
       ELSE IF Has(input, "history") /\ ~HistoryOk(input.history)
       THEN Reject("past_messages must be an array of chat completion objects.")
       ELSE Proceed([first.locals EXCEPT
                !.search_results = IF Has(input, "search_results")
                                   THEN input.search_results.value ELSE <<>>,
                !.temperature = IF Has(input, "temperature")
                                THEN Number(input.temperature) ELSE 0,
                !.max_tokens = IF Has(input, "max_tokens") /\ input.max_tokens.type # "null"
                               THEN Number(input.max_tokens) ELSE 0,
                !.history = IF Has(input, "history") THEN input.history.value ELSE <<>>])

Validation(endpoint, input) ==
    CASE endpoint = "search" -> ValidateSearch(input)
      [] endpoint = "completion" -> ValidateCompletion(input)
      [] endpoint = "complete" -> ValidateComplete(input)

\* ---- the steps of the handlers ----
RequestIdle ==
    /\ request = [endpoint |-> "none", input |-> JNull]
    /\ collectionServed = <<>>
    /\ hpc = "idle"
    /\ locals = InitialLocals
    /\ calls = <<>>
    /\ returned = Answer(0, "")

\* the collection was filled by an earlier ingest
RequestInit ==
    /\ request = [endpoint |-> "none", input |-> JNull]
    /\ collectionServed \in {SubSeq(Served, 1, n) : n \in 0..MaxServed}
    /\ hpc = "idle"
    /\ locals = InitialLocals
    /\ calls = <<>>
    /\ returned = Answer(0, "")

\* request.get_json()
Receive(endpoint, input) ==
    /\ hpc = "idle"
    /\ request' = [endpoint |-> endpoint, input |-> input]
    /\ hpc' = "validate"
    /\ UNCHANGED <<collectionServed, locals, calls, returned, storeVars, ingestVars,
                   serveVars, factoryVars, scrollVars>>

\* the checks of the body, up to the first one that answers
Validate ==
    /\ hpc = "validate"
    /\ LET checked == Validation(request.endpoint, request.input)
       IN IF checked.status # 0
          THEN /\ returned' = Answer(checked.status, checked.error)
               /\ hpc' = "done"
               /\ UNCHANGED locals
          ELSE /\ locals' = checked.locals
               /\ hpc' = IF request.endpoint = "complete" THEN "prompt" ELSE "handles"
               /\ UNCHANGED returned
    /\ UNCHANGED <<request, collectionServed, calls, storeVars, ingestVars, serveVars,
                   factoryVars, scrollVars>>

\* the handles HandleKeys[1..upto] are looked up in the module's cache and
\* constructed and cached where it holds None
Loaded(upto) ==
    /\ constructed' = [k \in Keys |->
          IF (\E i \in 1..upto : HandleKeys[i] = k) /\ cache[request.endpoint][k] = 0
          THEN constructed[k] + 1 ELSE constructed[k]]
    /\ cache' = [cache EXCEPT ![request.endpoint] = [k \in Keys |->
          IF (\E i \in 1..upto : HandleKeys[i] = k) /\ @[k] = 0
          THEN constructed[k] + 1 ELSE @[k]]]

\* search.py:62-106, api.py:165-207
LoadHandles ==
    /\ hpc = "handles"
    /\ Loaded(Len(HandleKeys))
    /\ hpc' = "retrieve"
    /\ UNCHANGED <<request, collectionServed, locals, calls, returned, rpc, rlocal,
                   rendpoint, storeVars, ingestVars, factoryVars, scrollVars>>

\* the constructor of the i-th handle raises
LoadHandlesRaises(i) ==
    /\ hpc = "handles"
    /\ Loaded(i - 1)
    /\ returned' = Answer(500, <<"Could not load embedding model.",
                                 "Could not load ChromaDB client.",
                                 "Could not load ChromaDB collection.">>[i])
    /\ hpc' = "done"
    /\ UNCHANGED <<request, collectionServed, locals, calls, rpc, rlocal, rendpoint,
                   storeVars, ingestVars, factoryVars, scrollVars>>

\* embedding_model.encode(...) and chroma_collection.query(...)
RetrievalOf(message) ==
    <<[fn |-> "encode", sentences |-> environ.VECTOR_SEARCH_QUERY_PREFIX \o message],
      [fn |-> "query", n_results |-> MaxResults]>>

\* chroma_collection.query(...)
QueryResults(coll) ==
    [is_none |-> FALSE, metadatas |-> SubSeq(coll, 1, Min(MaxResults, Len(coll)))]

\* api.py:215 `assert not no_rag`, caught at 226
SkipsRetrieval == request.endpoint = "completion" /\ locals.no_rag

\* search.py:111-137, api.py:214-230
Retrieve ==
    /\ hpc = "retrieve"
    /\ IF SkipsRetrieval
       THEN /\ hpc' = "prompt"
            /\ UNCHANGED <<locals, calls, returned>>
       ELSE /\ calls' = calls \o RetrievalOf(locals.message)
            /\ locals' = [locals EXCEPT
                    !.vector_search_results = QueryResults(collectionServed)]
            /\ IF request.endpoint = "search"
               THEN /\ returned' = [status |-> 200, error |-> "",
                                    body |-> QueryResults(collectionServed).metadatas]
                    /\ hpc' = "done"
               ELSE /\ hpc' = "prompt"
                    /\ UNCHANGED returned
    /\ UNCHANGED <<request, collectionServed, storeVars, ingestVars, serveVars,
                   factoryVars, scrollVars>>

\* encode (made = 1) or query (made = 2) raises
RetrieveRaises(made) ==
    /\ hpc = "retrieve"
    /\ ~SkipsRetrieval
    /\ calls' = calls \o SubSeq(RetrievalOf(locals.message), 1, made)
    /\ returned' = Answer(500, "Could not retrieve context from vector store.")
    /\ hpc' = "done"
    /\ UNCHANGED <<request, collectionServed, locals, storeVars, ingestVars, serveVars,
                   factoryVars, scrollVars>>

\* the f-string of api.py:244 and complete.py:155
Excerpt(vector) ==
    <<"Excerpt from web content ", vector.warc_record_target_uri, " captured on ",
      vector.warc_record_date, " as part of the web archive saved in ",
      vector.warc_filename, ":", "\n">> \o vector.warc_record_text \o <<"\n", "\n">>

RECURSIVE Excerpts(_)
Excerpts(vectors) ==
    IF vectors = <<>> THEN <<>> ELSE Excerpt(Head(vectors)) \o Excerpts(Tail(vectors))

\* api.py:237-244
ContextOf(vector_search_results) ==
    IF vector_search_results.is_none THEN <<>>
    ELSE Excerpts(vector_search_results.metadatas)

\* the prompt that puts the message into the template in no_rag mode too
PromptAlwaysFromTemplate(no_rag, message, rag_prompt_override, context) ==
    Strip(Replace(Replace(IF rag_prompt_override # <<>> THEN rag_prompt_override
                          ELSE environ.RAG_PROMPT,
                          "{context}", context),
                  "{question}", message))

\* api.py:246-252
Prompt(no_rag, message, rag_prompt_override, context) ==
    IF no_rag THEN message
    ELSE Strip(Replace(Replace(IF rag_prompt_override # <<>> THEN rag_prompt_override
                               ELSE environ.RAG_PROMPT,
                               "{context}", context),
                       "{question}", message))

RECURSIVE HistoryTxt(_)
HistoryTxt(history) ==
    IF history = <<>> THEN <<>>
    ELSE <<Head(history).role, ":", " ">> \o Head(history).content \o <<"\n">>
             \o HistoryTxt(Tail(history))

\* complete.py:135-167
ShellPrompt(message, history, search_results) ==
    LET history_txt == HistoryTxt(history)
        search_results_txt == Excerpts(search_results)
        with_history ==
            Replace(environ.TEXT_COMPLETION_BASE_PROMPT, "{history}",
                    IF history_txt # <<>>
                    THEN Replace(environ.TEXT_COMPLETION_HISTORY_PROMPT, "{history}", history_txt)
                    ELSE <<>>)
        with_rag ==
            Replace(with_history, "{rag}",
                    IF search_results_txt # <<>>
                    THEN Replace(environ.TEXT_COMPLETION_RAG_PROMPT, "{context}",
                                 search_results_txt)
                    ELSE <<>>)
    IN Strip(Replace(with_rag, "{request}", message))

PreparePrompt ==
    /\ hpc = "prompt"
    /\ locals' =
          IF request.endpoint = "completion"
          THEN [locals EXCEPT
                  !.context = ContextOf(locals.vector_search_results),
                  !.prompt = Prompt(locals.no_rag, locals.message,
                                    locals.rag_prompt_override,
                                    ContextOf(locals.vector_search_results))]
          ELSE [locals EXCEPT
                  !.prompt = ShellPrompt(locals.message, locals.history,
                                         locals.search_results)]
    /\ hpc' = "llm"
    /\ UNCHANGED <<request, collectionServed, calls, returned, storeVars, ingestVars,
                   serveVars, factoryVars, scrollVars>>

\* ---- litellm.utils.trim_messages ----
RECURSIVE Tokens(_)
Tokens(messages) ==
    IF messages = <<>> THEN 0 ELSE Len(Head(messages).content) + Tokens(Tail(messages))

\* the most recent messages that fit, the oldest of them cut down to its two
\* ends around ".."
RECURSIVE KeepRecent(_, _)
KeepRecent(messages, budget) ==
    IF messages = <<>> \/ budget <= 0 THEN <<>>
    ELSE LET last == messages[Len(messages)]
             before == SubSeq(messages, 1, Len(messages) - 1)
             half == (budget - 1) \div 2
         IN IF Len(last.content) <= budget
            THEN KeepRecent(before, budget - Len(last.content)) \o <<last>>
            ELSE <<[last EXCEPT !.content =
                        SubSeq(@, 1, half) \o <<"..">>
                            \o SubSeq(@, Len(@) - half + 1, Len(@))]>>

\* api.py:262-267: the messages are left alone under the budget of the model
\* and when trimming gives nothing
TrimMessages(messages) ==
    IF Tokens(messages) < MaxContext THEN messages
    ELSE LET new_messages == KeepRecent(messages, MaxContext)
         IN IF new_messages # <<>> THEN new_messages ELSE messages

UserMessage(content) == [content |-> content, role |-> "user"]

\* api.py:258-275 and complete.py:172-209: what is handed to the provider
ProviderCall ==
    IF request.endpoint = "completion"
    THEN [fn |-> "litellm.completion", model |-> locals.model,
          messages |-> TrimMessages(locals.history \o <<UserMessage(locals.prompt)>>),
          temperature |-> locals.temperature, max_tokens |-> locals.max_tokens]
    ELSE [fn |-> "chat", model |-> locals.model,
          messages |-> <<[role |-> "user", content |-> locals.prompt]>>,
          temperature |-> locals.temperature, max_tokens |-> locals.max_tokens]

\* api.py:277-304
Output ==
    [response |-> <<"reply">>,
     request_info |-> [model |-> locals.model, message |-> locals.message,
                       temperature |-> locals.temperature,
                       max_tokens |-> locals.max_tokens, no_rag |-> locals.no_rag,
                       message_plus_prompt |-> locals.prompt],
     context |-> IF locals.vector_search_results.is_none THEN <<>>
                 ELSE locals.vector_search_results.metadatas,
     history |-> locals.history
                     \o <<UserMessage(locals.message),
                          [content |-> <<"reply">>, role |-> "assistant"]>>]

\* what the provider streams for one completion, chunk by chunk
Chunks == <<"re", "ply">>

\* api.py:257-306, complete.py:172-206: /api/completion answers with the
\* whole output; /api/complete opens the stream and returns a Response over
\* a generator that has not run yet
QueryLLM ==
    /\ hpc = "llm"
    /\ calls' = Append(calls, ProviderCall)
    /\ returned' = [status |-> 200, error |-> "",
                    body |-> IF request.endpoint = "completion" THEN Output
                             ELSE [stream |-> <<>>, uncaught |-> FALSE]]
    /\ hpc' = IF request.endpoint = "completion" THEN "done" ELSE "stream"
    /\ UNCHANGED <<request, collectionServed, locals, storeVars, ingestVars, serveVars,
                   factoryVars, scrollVars>>

\* complete.py:184-186 and 200-202: after post_complete has returned, the
\* server pulls the next chunk from the generator and flushes it
PullChunk ==
    /\ hpc = "stream"
    /\ Len(returned.body.stream) < Len(Chunks)
    /\ returned' = [returned EXCEPT !.body.stream =
                        Append(@, Chunks[Len(returned.body.stream) + 1])]
    /\ UNCHANGED <<request, collectionServed, hpc, locals, calls, storeVars, ingestVars,
                   serveVars, factoryVars, scrollVars>>

\* complete.py:185 and 201: the provider's stream is exhausted
StreamEnds ==
    /\ hpc = "stream"
    /\ Len(returned.body.stream) = Len(Chunks)
    /\ hpc' = "done"
    /\ UNCHANGED <<request, collectionServed, locals, calls, returned, storeVars,
                   ingestVars, serveVars, factoryVars, scrollVars>>

\* complete.py:185 and 201: the provider raises while a chunk is pulled; the
\* generator runs after post_complete has left its try block (172-209), so
\* the exception leaves the generator and the response ends where it is
PullRaises ==
    /\ hpc = "stream"
    /\ Len(returned.body.stream) < Len(Chunks)
    /\ returned' = [returned EXCEPT !.body.uncaught = TRUE]
    /\ hpc' = "done"
    /\ UNCHANGED <<request, collectionServed, locals, calls, storeVars, ingestVars,
                   serveVars, factoryVars, scrollVars>>

\* the provider raises: api.py:307-309, complete.py:207-209
QueryLLMRaises ==
    /\ hpc = "llm"
    /\ calls' = Append(calls, ProviderCall)
    /\ returned' = Answer(500, IF request.endpoint = "completion"
                               THEN "Could not query LLM."
                               ELSE "Could not run completion against the model.")
    /\ hpc' = "done"
    /\ UNCHANGED <<request, collectionServed, locals, storeVars, ingestVars, serveVars,
                   factoryVars, scrollVars>>

RequestEndpoints == {"search", "completion", "complete"}

NextRequest ==
    \/ \E endpoint \in RequestEndpoints : \E input \in Bodies(endpoint) :
          Receive(endpoint, input)
    \/ Validate
    \/ LoadHandles
    \/ \E i \in 1..Len(HandleKeys) : LoadHandlesRaises(i)
    \/ Retrieve
    \/ \E made \in 1..2 : RetrieveRaises(made)
    \/ PreparePrompt
    \/ QueryLLM
    \/ QueryLLMRaises
    \/ PullChunk
    \/ StreamEnds
    \/ PullRaises

(***************************************************************************)
(* Qdrant._scroll_points, one page at a time                               *)
(***************************************************************************)

MaxStored == 130    \* points in the collection that is scrolled

ScrollIdle ==
    scroll = [pc |-> "idle", prefer_grpc |-> FALSE, next_offset |-> None,
              stop_scrolling |-> FALSE, records |-> <<>>, requests |-> <<>>]

\* a collection of n points as add leaves it: each under its own uuid
Stocked(n) ==
    [k \in 1..n |-> [id |-> "uuid-" \o ToString(k), vector |-> <<1, 0>>,
                     payload |-> Payload(MetaU1, ToString(k), "one.warc")]]

\* Qdrant.__init__ (qdrant.py:15-28) over a server that holds the collection
ScrollInit ==
    /\ metric = "cosine"
    /\ chroma = <<>>
    /\ qdrantExists = TRUE
    /\ qdrantConfig = [size |-> 2, distance |-> QdrantConvertMetric("cosine").distance]
    /\ \E n \in 0..MaxStored : qdrantPoints = Stocked(n) /\ uuidCount = n
    /\ supplied = {}
    /\ lastOp = NoOp
    /\ chromaOut = NoOut
    /\ qdrantOut = NoOut
    /\ \E prefer_grpc \in BOOLEAN :
          scroll = [pc |-> "idle", prefer_grpc |-> prefer_grpc, next_offset |-> None,
                    stop_scrolling |-> FALSE, records |-> <<>>, requests |-> <<>>]

\* qdrant.py:102-104
ScrollPoints ==
    /\ scroll.pc = "idle"
    /\ scroll' = [scroll EXCEPT !.pc = "loop", !.records = <<>>, !.next_offset = None,
                                !.stop_scrolling = FALSE]
    /\ UNCHANGED <<storeVars, ingestVars, serveVars, factoryVars, requestVars>>

\* qdrant.py:105-120: one turn of the loop
ScrollPage ==
    /\ scroll.pc = "loop"
    /\ ~scroll.stop_scrolling
    /\ LET page == ClientScroll(qdrantPoints, SCROLL_SIZE, scroll.next_offset,
                                scroll.prefer_grpc)
       IN scroll' = [scroll EXCEPT
                        !.requests = Append(@, [limit |-> SCROLL_SIZE,
                                                offset |-> scroll.next_offset]),
                        !.next_offset = page.next_offset,
                        !.stop_scrolling = StopScrolling(page.next_offset),
                        !.records = @ \o page.response]
    /\ UNCHANGED <<storeVars, ingestVars, serveVars, factoryVars, requestVars>>

\* qdrant.py:105 and 122: the loop is left and the records returned
ScrollReturn ==
    /\ scroll.pc = "loop"
    /\ scroll.stop_scrolling
    /\ scroll' = [scroll EXCEPT !.pc = "returned"]
    /\ UNCHANGED <<storeVars, ingestVars, serveVars, factoryVars, requestVars>>

NextScroll ==
    \/ ScrollPoints
    \/ ScrollPage
    \/ ScrollReturn

(***************************************************************************)
(* Specifications                                                          *)
(***************************************************************************)

Init == StoreInit /\ IngestIdle /\ ServeIdle /\ FactoryIdle /\ RequestIdle /\ ScrollIdle
Next == NextStore
Spec == Init /\ [][Next]_vars

StoreIdle ==
    /\ metric = "cosine"
    /\ chroma = <<>>
    /\ qdrantExists = FALSE
    /\ qdrantConfig = NoConfig
    /\ qdrantPoints = <<>>
    /\ uuidCount = 0
    /\ supplied = {}
    /\ lastOp = NoOp
    /\ chromaOut = NoOut
    /\ qdrantOut = NoOut

InitIngest == StoreIdle /\ IngestInit /\ ServeIdle /\ FactoryIdle /\ RequestIdle /\ ScrollIdle
SpecIngest == InitIngest /\ [][NextIngest]_vars

InitServe == StoreIdle /\ IngestIdle /\ ServeIdle /\ FactoryIdle /\ RequestIdle /\ ScrollIdle
SpecServe == InitServe /\ [][NextServe]_vars

InitFactory == StoreIdle /\ IngestIdle /\ ServeIdle /\ FactoryIdle /\ RequestIdle /\ ScrollIdle
SpecFactory == InitFactory /\ [][NextFactory]_vars

InitRequest == StoreIdle /\ IngestIdle /\ ServeIdle /\ FactoryIdle /\ RequestInit /\ ScrollIdle
SpecRequest == InitRequest /\ [][NextRequest]_vars

\* _scroll_points runs in one thread from its call to its return, so a turn
\* of the loop that can be taken is taken
InitScroll == ScrollInit /\ IngestIdle /\ ServeIdle /\ FactoryIdle /\ RequestIdle
SpecScroll == InitScroll /\ [][NextScroll]_vars /\ WF_vars(NextScroll)
(***************************************************************************)
(* Claims                                                                  *)
(***************************************************************************)

Ranked(m, q, embeddings) ==
    \A i, j \in 1..Len(embeddings) :
        i < j => AtLeastAsSimilar(m, q, embeddings[i], embeddings[j])

EqualLengths(body) ==
    /\ Len(body.ids) = Len(body.embeddings)
    /\ Len(body.ids) = Len(body.documents)
    /\ Len(body.ids) = Len(body.metadatas)

EntriesOf(body) ==
    {[id |-> body.ids[i], document |-> body.documents[i],
      embedding |-> body.embeddings[i], metadata |-> body.metadatas[i]] :
        i \in 1..Len(body.ids)}

\* C1: on either backend, search(query_embedding, limit) on a collection of N
\* entries returns exactly min(limit, N) entries, ranked similarity-descending
\* under the collection's metric.
C1_SearchReturnsMinLimitN ==
    lastOp.op = "search" =>
        /\ chromaOut.status = "returned" =>
              /\ Len(chromaOut.body.ids) = Min(lastOp.limit, Len(chroma))
              /\ EqualLengths(chromaOut.body)
              /\ Ranked(metric, lastOp.q, chromaOut.body.embeddings)
        /\ qdrantOut.status = "returned" =>
              /\ Len(qdrantOut.body.ids) = Min(lastOp.limit, Len(qdrantPoints))
              /\ EqualLengths(qdrantOut.body)
              /\ Ranked(metric, lastOp.q, qdrantOut.body.embeddings)

\* C2: after any sequence of add calls, get_all returns four lists of equal
\* length and no id appears twice in the returned ids, on either backend.
C2_GetAllIdsUnique ==
    lastOp.op = "get_all" =>
        /\ chromaOut.status = "returned" =>
              EqualLengths(chromaOut.body) /\ ~HasRepeat(chromaOut.body.ids)
        /\ qdrantOut.status = "returned" =>
              EqualLengths(qdrantOut.body) /\ ~HasRepeat(qdrantOut.body.ids)

PhysicalIds == {qdrantPoints[j].id : j \in 1..Len(qdrantPoints)}

\* C3: on the Qdrant backend every id and document that get_all or search
\* returns is the id and document label of an entry a caller supplied, never
\* the physical point UUID, and no returned metadata holds a reserved key.
C3_QdrantHidesPhysicalIds ==
    (lastOp.op \in {"get_all", "search"} /\ qdrantOut.status = "returned") =>
        \A i \in 1..Len(qdrantOut.body.ids) :
            /\ \E e \in supplied : /\ e.id = qdrantOut.body.ids[i]
                                   /\ e.document = qdrantOut.body.documents[i]
            /\ qdrantOut.body.ids[i] \notin PhysicalIds
            /\ qdrantOut.body.documents[i] \notin PhysicalIds
            /\ ID_KEY \notin DOMAIN qdrantOut.body.metadatas[i]
            /\ DOCUMENT_KEY \notin DOMAIN qdrantOut.body.metadatas[i]

\* get_all has returned two or more points, one of them stored from metadata
\* that itself carried the reserved id key
C3_Witness ==
    /\ lastOp.op = "get_all"
    /\ qdrantOut.status = "returned"
    /\ Len(qdrantOut.body.ids) >= 2
    /\ EntryC1 \in supplied
    /\ \E i \in 1..Len(qdrantOut.body.ids) : qdrantOut.body.ids[i] = "c"

Holds(body, e) ==
    \E i \in 1..Len(body.ids) :
        /\ body.ids[i] = e.id
        /\ body.documents[i] = e.document
        /\ body.metadatas[i] = e.metadata
        /\ body.embeddings[i] = e.embedding

\* C4: immediately after add returns, get_all holds, for every index k of the
\* call, an entry with ids[k], documents[k], metadatas[k] and embeddings[k],
\* and the four returned lists are aligned.
C4_ReadAfterWrite ==
    lastOp.op = "add" =>
        /\ chromaOut.status = "returned" =>
              /\ EqualLengths(ChromaGetAll(chroma))
              /\ \A k \in 1..Len(lastOp.batch) :
                    Holds(ChromaGetAll(chroma), lastOp.batch[k])
        /\ qdrantOut.status = "returned" =>
              /\ EqualLengths(QdrantGetAll(qdrantPoints))
              /\ \A k \in 1..Len(lastOp.batch) :
                    Holds(QdrantGetAll(qdrantPoints), lastOp.batch[k])

\* C5: on the same sequence of calls the two backends return the same set of
\* entries from get_all and the same ranked entries from every search.
C5_BackendsAgree ==
    (chromaOut.status = "returned" /\ qdrantOut.status = "returned") =>
        /\ lastOp.op = "get_all" =>
              EntriesOf(chromaOut.body) = EntriesOf(qdrantOut.body)
        /\ lastOp.op = "search" =>
              /\ Len(chromaOut.body.ids) = Len(qdrantOut.body.ids)
              /\ chromaOut.body.ids = qdrantOut.body.ids
              /\ chromaOut.body.documents = qdrantOut.body.documents
              /\ chromaOut.body.metadatas = qdrantOut.body.metadatas
IsPrefix(s, t) == Len(s) <= Len(t) /\ SubSeq(t, 1, Len(s)) = s

Switched == batch_size > 1 /\ ~multi_chunk_mode

\* C6: once the run is in single-chunk mode it stays there: every later
\* embedding call, for every later record and file, encodes one chunk with
\* batch size 1, and the timing samples are only ever extended.
C6_BatchingNeverReverts ==
    [][ipc = "records" =>
          /\ ~multi_chunk_mode => ~multi_chunk_mode'
          /\ (~multi_chunk_mode /\ lastEmbed'.rec # lastEmbed.rec) =>
                /\ ~lastEmbed'.multi_before
                /\ Len(encodeLog') = lastEmbed'.n
                /\ \A i \in 1..Len(encodeLog') :
                      encodeLog'[i].n = 1 /\ encodeLog'[i].batch_size = 1
          /\ IsPrefix(encoding_timings, encoding_timings')]_vars

\* a run that left multi-chunk mode has embedded a later two-chunk record of
\* its second file one chunk at a time
C6_Witness ==
    /\ Switched
    /\ fileIdx = 2
    /\ ~lastEmbed.multi_before
    /\ lastEmbed.n = 2
    /\ Len(encodeLog) = 2
    /\ Len(encoding_timings) >= 1

Mean_x_n_Exceeded(encoding_time, n, samples) ==
    encoding_time * Len(samples) > n * SumSeq(samples)

\* C7: a batched call over n > 1 chunks in multi-chunk mode leaves the mode
\* exactly when a timing sample exists and the call took strictly longer than
\* n times the mean of the samples.
C7_SwitchIffTooSlow ==
    (lastEmbed.multi_before /\ lastEmbed.n > 1) =>
        LET samples == lastEmbed.timings_before
            leaves == Len(samples) >= 1
                        /\ Mean_x_n_Exceeded(lastEmbed.encoding_time, lastEmbed.n, samples)
        IN /\ ~multi_chunk_mode <=> leaves
           /\ encoding_timings = samples
           /\ (Len(samples) >= 1
                 /\ (\A i \in 1..Len(samples) : samples[i] = samples[1])
                 /\ lastEmbed.encoding_time > lastEmbed.n * samples[1])
              => ~multi_chunk_mode
           /\ Len(samples) = 0 => multi_chunk_mode

\* a two-chunk call that took longer than twice the one recorded sample has
\* just made the run leave multi-chunk mode
C7_Witness ==
    /\ lastEmbed.multi_before
    /\ lastEmbed.n = 2
    /\ Len(lastEmbed.timings_before) >= 1
    /\ lastEmbed.encoding_time > 2 * lastEmbed.timings_before[1]
    /\ ~multi_chunk_mode

\* C8: for every interleaving of requests each shared handle is constructed
\* at most once, and all requests that hold a handle hold the same one.
C8_HandlesInitialisedOnce ==
    \A k \in Keys :
        /\ constructed[k] <= 1
        /\ \A r1, r2 \in Requests :
              (rlocal[r1][k] # 0 /\ rlocal[r2][k] # 0) => rlocal[r1][k] = rlocal[r2][k]

HasLine(text) == \E i \in 1..Len(output) : output[i].text = text

\* C9: a run that finds no archive file reports it, exits non-zero, leaves no
\* collection and no database file, loads no model and prints no summary.
C9_NoFilesAborts ==
    (ipc = "done" /\ batch_size >= 1 /\ nFiles = 0) =>
        /\ HasLine("No WARC files to ingest.")
        /\ exitCode # 0
        /\ exitCode # -1
        /\ ~collection.created
        /\ ~dbFile
        /\ ~modelLoaded
        /\ ~HasLine("Total")
        /\ total_records = 0 /\ total_embeddings = 0

C9_Witness ==
    /\ ipc = "done"
    /\ batch_size = 2
    /\ nFiles = 0
    /\ exitCode = 1

EntriesOfRecord(r) ==
    SelectSeq(collection.entries, LAMBDA e : e.metadata.warc_record_id = RecordId(r))

\* C11: in both modes the embedding step keeps length and order: the record
\* just embedded has given one entry per chunk, and the i-th entry carries
\* the encoding of the i-th chunk, the i-th id and the i-th chunk's text
\* without the prefix.
C11_EmbeddingsAligned ==
    lastIter.left_at = 231 =>
        LET n == lastEmbed.n
            chunks == TextChunks(lastEmbed.rec, n)
            m == Len(collection.entries)
        IN /\ m >= n
           /\ Len(EntriesOfRecord(lastEmbed.rec)) = n
           /\ \A i \in 1..n :
                 LET e == collection.entries[m - n + i]
                 IN /\ e.embedding = Encode(chunks[i])
                    /\ e.id = RecordId(lastEmbed.rec) \o <<"-">> \o DecStr(i)
                    /\ chunk_prefix \o e.metadata.warc_record_text = chunks[i]
                    /\ e.metadata.warc_record_id = RecordId(lastEmbed.rec)

\* a two-chunk record has been embedded one chunk at a time, after the run
\* left multi-chunk mode
C11_Witness ==
    /\ lastIter.left_at = 231
    /\ ~lastEmbed.multi_before
    /\ lastEmbed.n = 2
    /\ Len(encodeLog) = 2
    /\ collection.entries[Len(collection.entries)].embedding
          = Encode(<<"p", ":", "t", "3", ".", "2">>)

\* C12: for every record the ids stored are record_id-1, record_id-2, ...,
\* record_id-k in chunk order: 1-based, contiguous, without a gap or a repeat.
C12_ChunkIdsContiguous ==
    \A r \in 1..recIdx :
        LET es == EntriesOfRecord(r)
        IN /\ \A i \in 1..Len(es) : es[i].id = <<"r", Digits[r], "-", Digits[i]>>
           /\ (r = lastEmbed.rec /\ lastIter.left_at = 231) => Len(es) = lastEmbed.n

\* two records of two chunks each are stored
C12_Witness ==
    /\ Len(EntriesOfRecord(1)) = 2
    /\ Len(EntriesOfRecord(2)) = 2
    /\ EntriesOfRecord(2)[2].id = <<"r", "2", "-", "2">>

\* what an iteration that drops its record leaves as it was
RecordDropped ==
    /\ collection' = collection
    /\ total_records' = total_records
    /\ total_embeddings' = total_embeddings
    /\ entriesAdded' = entriesAdded
    /\ encodeLog' = encodeLog
    /\ lastEmbed' = lastEmbed
    /\ ipc' = "records"
    /\ exitCode' = -1

\* the step is an iteration of the record loop over rec (the first two
\* conjuncts are implied by the third)
IsStepOver(rec) ==
    /\ recIdx' = recIdx + 1
    /\ total_records' = CountRecord(total_records, rec)
    /\ \E n \in 0..MaxChunks, t \in Durations : IngestRecord(rec, n, t)

\* C13: a record whose extracted text is empty or has fewer than 5 words
\* produces no entry: no embedding call, no insert, and it is not counted.
C13_ShortTextDropped ==
    [][RecordDropped
        \/ ~\E rec \in RecordShapes : rec.words < 5 /\ IsStepOver(rec)]_vars

\* a four-word record was read after a record that was embedded
C13_Witness ==
    /\ lastIter.left_at = 192
    /\ recIdx >= 2
    /\ total_records = 1
    /\ Len(collection.entries) >= 1

NotResponse(rec) == rec.rec_type # "response"
LacksAField(rec) ==
    \E f \in {"WARC-Record-ID", "WARC-Date", "WARC-Target-URI", "Content-Type"} :
        f \notin rec.fields
Not2xx(rec) == ~(Len(rec.status) = 3 /\ rec.status[1] = "2")

\* C14: a record that is not a response, or lacks the record id, the capture
\* date, the target URI or the content type, or whose status is not 2xx, is
\* dropped without an error: no entry, no counter change, the run goes on.
C14_IncompleteDropped ==
    [][RecordDropped
        \/ ~\E rec \in RecordShapes :
               /\ NotResponse(rec) \/ LacksAField(rec) \/ Not2xx(rec)
               /\ IsStepOver(rec)]_vars

\* a record without a capture date was read after a record that was embedded,
\* and the run goes on
C14_Witness ==
    /\ lastIter.left_at = 135
    /\ recIdx >= 2
    /\ total_records = 1
    /\ Len(collection.entries) >= 1
    /\ ipc = "records"

\* C19: an extraction failure on an HTML or PDF record is caught; the record
\* produces no entry, nothing of its text is embedded, and the run goes on.
C19_ExtractionFailureDropped ==
    [][RecordDropped
        \/ ~\E rec \in RecordShapes :
               /\ rec.raises
               /\ rec.content_type \in {HtmlType, PdfType}
               /\ IsStepOver(rec)]_vars

\* the extraction of a PDF record raised after a record was embedded, and the
\* run goes on
C19_Witness ==
    /\ lastIter.extraction_raised
    /\ lastIter.left_at = 183
    /\ recIdx >= 2
    /\ Len(collection.entries) >= 1
    /\ ipc = "records"

EncodeRaised == lastIter.left_at \in {269, 287}

\* C20: when the embedding call raises the run aborts at that record: the
\* call is not retried, nothing of the record is stored, nothing is processed
\* afterwards and the summary is never printed.
C20_EncodeFailureAborts ==
    /\ [](EncodeRaised =>
            /\ ipc = "done"
            /\ exitCode \notin {0, -1}
            /\ EntriesOfRecord(recIdx) = <<>>
            /\ Len(collection.entries) = total_embeddings
            /\ \A i, j \in 1..Len(encodeLog) :
                  i # j => encodeLog[i].first # encodeLog[j].first
            /\ ~HasLine("Total"))
    /\ [][EncodeRaised => UNCHANGED ingestVars]_vars

\* the call for the second chunk of a record raised in single-chunk mode,
\* with entries of earlier records in the store
C20_Witness ==
    /\ lastIter.left_at = 287
    /\ Len(encodeLog) = 2
    /\ ipc = "done"
    /\ Len(collection.entries) >= 1

\* the dimensionality an add call meets: that of the collection, or when the
\* call creates the collection that of its first embedding
QdrantSizeFor(batch) ==
    IF qdrantExists THEN qdrantConfig.size ELSE Len(batch[1].embedding)
ChromaSizeFor(batch) ==
    IF chroma # <<>> THEN Len(chroma[1].embedding) ELSE Len(batch[1].embedding)
CarriesOtherSize(batch, size) ==
    \E i \in 1..Len(batch) : Len(batch[i].embedding) # size

\* C18: every stored embedding has the collection's dimensionality; the
\* dimensionality and the metric are those fixed at creation and never change;
\* an add carrying a vector of another dimensionality (also one whose later
\* embeddings differ from its first) fails and stores nothing from that call.
C18_DimensionalityFixed ==
    /\ [](/\ qdrantExists =>
               \A i \in 1..Len(qdrantPoints) :
                   Len(qdrantPoints[i].vector) = qdrantConfig.size
          /\ \A i \in 1..Len(chroma) :
                   Len(chroma[i].embedding) = Len(chroma[1].embedding))
    /\ [][/\ qdrantExists => (qdrantExists' /\ qdrantConfig' = qdrantConfig)
          /\ (lastOp'.op = "add" /\ uuidCount' # uuidCount) =>
                /\ CarriesOtherSize(lastOp'.batch, QdrantSizeFor(lastOp'.batch)) =>
                      (qdrantOut'.status = "raised" /\ qdrantPoints' = qdrantPoints)
                /\ CarriesOtherSize(lastOp'.batch, ChromaSizeFor(lastOp'.batch)) =>
                      (chromaOut'.status = "raised" /\ chroma' = chroma)]_vars

\* the pairs (lower-case letter, upper-case letter) of the letters the names use
CasePairs == {<<"c", "C">>, <<"h", "H">>, <<"r", "R">>, <<"o", "O">>, <<"m", "M">>, <<"a", "A">>, <<"q", "Q">>, <<"d", "D">>, <<"n", "N">>, <<"t", "T">>, <<"v", "V">>, <<"s", "S">>}
SameIgnoringCase(a, b) ==
    /\ Len(a) = Len(b)
    /\ \A i \in 1..Len(a) :
          a[i] = b[i] \/ <<a[i], b[i]>> \in CasePairs \/ <<b[i], a[i]>> \in CasePairs
Mentions(text, word) ==
    \E i \in 0..(Len(text) - Len(word)) : SubSeq(text, i + 1, i + Len(word)) = word
BuiltBy(log) == SelectSeq(log, LAMBDA call : ~call.made.raised)

\* C17: make_storage(name) picks the backend whose class name equals the name
\* up to letter case and constructs it; for any other name it constructs
\* nothing and raises ValueError with a message that lists the valid names
C17_FactoryCaseInsensitive ==
    /\ \A k \in 1..Len(factoryLog) :
          LET call == factoryLog[k]
              named == {i \in 1..Len(Subclasses) : SameIgnoringCase(Subclasses[i], call.name)}
          IN IF named # {}
             THEN /\ ~call.made.raised
                  /\ \E i \in named : call.made.instance = Subclasses[i]
             ELSE /\ call.made.raised
                  /\ call.made.instance = <<>>
                  /\ Mentions(call.made.message, call.name)
                  /\ Mentions(call.made.message, <<"c", "h", "r", "o", "m", "a">>)
                  /\ Mentions(call.made.message, <<"q", "d", "r", "a", "n", "t">>)
    /\ Len(built) = Len(BuiltBy(factoryLog))
    /\ \A k \in 1..Len(built) : built[k] = BuiltBy(factoryLog)[k].made.instance

C17_Witness ==
    /\ Len(factoryLog) = 2
    /\ factoryLog[1].name = <<"f", "a", "i", "s", "s">>
    /\ factoryLog[1].made.raised
    /\ factoryLog[2].name = <<"Q", "D", "R", "A", "N", "T">>
    /\ built = <<<<"Q", "d", "r", "a", "n", "t">>>>

NoRagRequest ==
    /\ request.endpoint = "completion"
    /\ request.input.type = "object"
    /\ request.input.no_rag.type = "bool"
    /\ request.input.no_rag.value
RawMessage == Strip(Str(request.input.message))
RetrievalCalls == {i \in 1..Len(calls) : calls[i].fn \in {"encode", "query"}}
CompletionCalls == {i \in 1..Len(calls) : calls[i].fn = "litellm.completion"}
LastOf(messages) == messages[Len(messages)]

\* C15 as stated: with no_rag true, /api/completion computes no query
\* embedding and issues no search, hands the provider a prompt equal to the
\* trimmed message, and returns an empty context list
C15_NoRagDispatchesRawMessage ==
    NoRagRequest =>
        /\ RetrievalCalls = {}
        /\ \A i \in CompletionCalls : LastOf(calls[i].messages).content = RawMessage
        /\ returned.status = 200 => returned.body.context = <<>>

\* C15, amended: with no_rag true, /api/completion computes no query
\* embedding and issues no search; a 200 answer carries an empty context list
\* and reports the trimmed message as message_plus_prompt; the last message
\* handed to the provider is a user message holding that prompt, or what
\* trim_messages cut it down to when the conversation is over the budget of
\* the model
C15_NoRagPromptIsRawMessage ==
    NoRagRequest =>
        /\ RetrievalCalls = {}
        /\ \A i \in CompletionCalls :
              LET sent == LastOf(calls[i].messages)
                  conversation == locals.history \o <<UserMessage(RawMessage)>>
              IN /\ sent.role = "user"
                 /\ \/ sent.content = RawMessage
                    \/ /\ Tokens(conversation) >= MaxContext
                       /\ Len(sent.content) <= MaxContext
        /\ returned.status = 200 =>
              /\ returned.body.context = <<>>
              /\ returned.body.request_info.no_rag
              /\ returned.body.request_info.message_plus_prompt = RawMessage

C15_Witness ==
    /\ NoRagRequest
    /\ returned.status = 200
    /\ collectionServed # <<>>
    /\ request.input.rag_prompt_override = J("string", <<"{question}", "!", "{context}", " ">>)
    /\ RawMessage = <<"hi">>
    /\ \E i \in CompletionCalls : calls[i].messages = <<UserMessage(<<"hi">>)>>

MessageMissing ==
    /\ request.endpoint \in RequestEndpoints
    /\ \/ request.input.type # "object"
       \/ ~Has(request.input, "message")
       \/ request.input.message.type = "string" /\ Strip(request.input.message.value) = <<>>

\* C16: a request to /api/search, /api/completion or /api/complete whose
\* message is missing, empty or blank is answered 400 with "No message
\* provided." or "Message cannot be empty.", no handle having been
\* initialised and no call made to the embedding model, the store or the
\* provider
C16_MissingMessageRejected ==
    MessageMissing /\ hpc \notin {"idle", "validate"} =>
        /\ hpc = "done"
        /\ returned.status = 400
        /\ returned.error \in {"No message provided.", "Message cannot be empty."}

\* the part of C16 that the handlers keep: such a request initialises no
\* handle and makes no call
MissingMessageTouchesNothing ==
    MessageMissing =>
        /\ calls = <<>>
        /\ constructed = [k \in Keys |-> 0]
        /\ cache = [e \in Endpoints |-> vector_store_cache]
        /\ hpc \in {"idle", "validate", "done"}

\* C22: with --batch-size 1 the run is in single-chunk mode from the first
\* record on, every encode call carries one chunk and encoding_timings stays
\* empty; in any run a timing sample is appended only by a call made in
\* multi-chunk mode for a text of exactly one chunk
C22_BatchSizeOneNeverTimes ==
    /\ [](batch_size = 1 /\ ipc \notin {"idle", "start"} =>
              /\ ~multi_chunk_mode
              /\ encoding_timings = <<>>
              /\ \A i \in 1..Len(encodeLog) :
                    encodeLog[i].n = 1 /\ encodeLog[i].batch_size = 1)
    /\ [][encoding_timings' # encoding_timings =>
              /\ multi_chunk_mode
              /\ Len(encodeLog') = 1
              /\ encodeLog'[1].n = 1
              /\ Len(encoding_timings') = Len(encoding_timings) + 1
              /\ SubSeq(encoding_timings', 1, Len(encoding_timings)) = encoding_timings]_vars

C22_Witness ==
    /\ batch_size = 1
    /\ ipc = "done"
    /\ exitCode = 0
    /\ total_embeddings >= 3
    /\ Len(encodeLog) = 2
    /\ encoding_timings = <<>>

\* the Distance each supported metric name stands for
DistanceNamed ==
    [cosine |-> "Distance.COSINE", l2 |-> "Distance.EUCLID", ip |-> "Distance.DOT"]
Creates == ~qdrantExists /\ qdrantExists'

\* C24: a Qdrant backend starts without a collection; the collection is
\* created only by an add that finds none, before any point is stored, with
\* the size of the first embedding of that add and the Distance of the
\* configured metric; once it exists no call creates or reconfigures it
C24_LazyCollectionCreation ==
    /\ [](~qdrantExists => qdrantPoints = <<>> /\ qdrantConfig = NoConfig)
    /\ [][/\ Creates =>
                /\ lastOp'.op = "add"
                /\ metric \in DOMAIN DistanceNamed
                /\ qdrantConfig' = [size |-> Len(lastOp'.batch[1].embedding),
                                    distance |-> DistanceNamed[metric]]
                /\ \A i \in 1..Len(qdrantPoints') :
                      Len(qdrantPoints'[i].vector) = qdrantConfig'.size
          /\ qdrantExists => qdrantExists' /\ qdrantConfig' = qdrantConfig]_vars

C24_Witness ==
    /\ qdrantExists
    /\ qdrantConfig = [size |-> 3, distance |-> "Distance.EUCLID"]
    /\ Len(qdrantPoints) = 2
    /\ lastOp.op = "add"
    /\ Len(lastOp.batch[1].embedding) = 2
    /\ qdrantOut.status = "raised"

\* C25: under a metric name Qdrant does not support, the add that would
\* create the collection fails with an error that lists the valid metric
\* names, creates no collection and stores no point
C25_UnsupportedMetricFatal ==
    metric \notin DOMAIN DistanceNamed /\ lastOp.op = "add" =>
        /\ qdrantOut.status = "raised"
        /\ ~qdrantExists
        /\ qdrantPoints = <<>>
        /\ \A name \in DOMAIN DistanceNamed : Mentions(qdrantOut.error, <<name>>)

\* the part of C25 the backend keeps: the add fails and leaves nothing behind
UnsupportedMetricLeavesNothing ==
    metric \notin DOMAIN DistanceNamed =>
        /\ ~qdrantExists
        /\ qdrantPoints = <<>>
        /\ uuidCount = 0
        /\ lastOp.op = "add" =>
              qdrantOut.status = "raised" /\ Mentions(qdrantOut.error, <<metric>>)

\* C26: a handle whose construction fails makes the request answer 500 and
\* leaves the cache as it was: the failed slot is not written and the handles
\* loaded before stay cached; no step empties a slot; a request that finds
\* a slot empty attempts the construction again
C26_FailedLoadLeavesSlotEmpty ==
    [][/\ \A r \in Requests :
             rpc[r][1] = "construct" /\ rpc'[r][1] = "500" =>
                 /\ rpc'[r][2] = rpc[r][2]
                 /\ cache' = cache
                 /\ constructed' = constructed
       /\ \A e \in Endpoints, k \in Keys : cache[e][k] # 0 => cache'[e][k] # 0
       /\ \A r \in Requests, i \in 1..Len(HandleKeys) :
             /\ rpc[r] = <<"check", i>> /\ rpc'[r] # rpc[r]
             /\ cache[rendpoint[r]][HandleKeys[i]] = 0
             => rpc'[r] = <<"construct", i>>]_vars

\* request 1 was answered 500 for the collection; request 2, on the same
\* endpoint, took the two handles loaded before from the cache and is
\* constructing the collection again
C26_Witness ==
    /\ rpc[1] = <<"500", 3>>
    /\ rpc[2] = <<"construct", 3>>
    /\ rendpoint[1] = rendpoint[2]
    /\ constructed = [k \in Keys |-> IF k = "chroma_collection" THEN 0 ELSE 1]
    /\ cache[rendpoint[1]]["chroma_collection"] = 0
    /\ cache[rendpoint[1]]["embedding_model"] = 1
    /\ rlocal[2]["chroma_client"] = 1

Prepared == hpc \in {"llm", "stream", "done"} /\ locals.prompt # <<>>

\* C27: the prompt /api/completion and /api/complete prepare holds the text
\* of every excerpt, the content of every history entry and the message as
\* they were given: a placeholder occurring inside them is not replaced
C27_PromptDataVerbatim ==
    Prepared =>
        /\ Mentions(locals.prompt, locals.message)
        /\ request.endpoint = "completion" /\ ~locals.no_rag =>
              \A i \in 1..Len(locals.vector_search_results.metadatas) :
                  Mentions(locals.prompt,
                           locals.vector_search_results.metadatas[i].warc_record_text)
        /\ request.endpoint = "complete" =>
              /\ \A i \in 1..Len(locals.search_results) :
                    Mentions(locals.prompt, locals.search_results[i].warc_record_text)
              /\ \A i \in 1..Len(locals.history) :
                    Mentions(locals.prompt, locals.history[i].content)

\* the part of C27 the handlers keep: the message is put in last and stays
\* as it was given
MessageVerbatim == Prepared => Mentions(locals.prompt, locals.message)

Streamed == request.endpoint = "complete" /\ returned.status = 200

\* C21: in /api/complete every error of the completion provider is caught
\* and reported by the handler, when the stream is opened and while chunks
\* are pulled
C21_StreamErrorsCaught == Streamed => ~returned.body.uncaught

\* the parts of C21 the handler keeps: an error at the opening of the stream
\* is answered with status 500 and its message, and a flushed chunk stays
StreamOpeningCaughtFlushedKept ==
    /\ [][hpc = "llm" /\ request.endpoint = "complete" /\ hpc' = "done" =>
            returned' = Answer(500, "Could not run completion against the model.")]_vars
    /\ [][hpc = "stream" =>
            /\ Len(returned'.body.stream) >= Len(returned.body.stream)
            /\ SubSeq(returned'.body.stream, 1, Len(returned.body.stream))
                   = returned.body.stream]_vars

Exhausted(cursor) == cursor = None \/ cursor = NoPointId

\* C23: _scroll_points returns for every finite collection, with every stored
\* point exactly once; every page is asked for with limit 64 and with the
\* cursor the page before returned (None for the first), and the loop stops
\* only on a cursor that is None or the PointId with num 0 and empty uuid
C23_ScrollReturnsEveryPointOnce ==
    /\ <>(scroll.pc = "returned")
    /\ [](scroll.pc = "returned" =>
            /\ Len(scroll.records) = Len(qdrantPoints)
            /\ \A k \in 1..Len(qdrantPoints) :
                  Cardinality({i \in 1..Len(scroll.records) :
                                  scroll.records[i].id = qdrantPoints[k].id}) = 1
            /\ Exhausted(scroll.next_offset))
    /\ [](\A i \in 1..Len(scroll.requests) : scroll.requests[i].limit = 64)
    /\ [](scroll.stop_scrolling => Exhausted(scroll.next_offset))
    /\ [][scroll.requests' # scroll.requests =>
            /\ Len(scroll.requests') = Len(scroll.requests) + 1
            /\ scroll.requests'[Len(scroll.requests')].offset = scroll.next_offset
            /\ (scroll.requests = <<>> => scroll.next_offset = None)
            /\ (scroll.requests # <<>> => ~Exhausted(scroll.next_offset))]_vars

\* 130 points over gRPC: three pages, the last ended by the unset PointId
C23_Witness ==
    /\ scroll.pc = "returned"
    /\ scroll.prefer_grpc
    /\ Len(qdrantPoints) = 130
    /\ Len(scroll.records) = 130
    /\ Len(scroll.requests) = 3
    /\ scroll.requests[3].offset = Cursor(TRUE, "uuid-129")
    /\ scroll.next_offset = NoPointId

====
